---- MODULE Spec2Model ----
(***************************************************************************)
(* The batched state-aggregation engine of rocketpool-go, package state:   *)
(* GetAllNativeMinipoolDetails, GetNodeNativeMinipoolDetails and           *)
(* GetNativeMinipoolDetails with the helpers they call.  One behaviour is  *)
(* one invocation of one operation against a remote chain state that is    *)
(* fixed at the queried block.  The operations are the three exported      *)
(* functions and, as "helpers", the pipeline getMinipoolVersionsFast then  *)
(* getBulkMinipoolDetails both bulk functions end with, run on an address  *)
(* list that is its argument; "getVersions" is getMinipoolVersionsFast     *)
(* alone, on a list of more than one chunk; "odaoAll" and "odaoSingle" are *)
(* GetAllOracleDaoMemberDetails and GetOracleDaoMemberDetails.             *)
(*                                                                         *)
(* Conventions.  A Go slice of length n is a function on 0..n-1.  A        *)
(* *big.Int is a sequence: << >> is the nil pointer, <<v>> points at v.    *)
(* An address is a positive number, 0 is the zero address.  An errgroup    *)
(* worker takes two steps: Launch (wg.Go up to and including the sending   *)
(* of its batch) and Finish (the batch's round trip returns).              *)
(***************************************************************************)
EXTENDS Integers, Sequences, FiniteSets, TLC

VARIABLES
    op,               \* the operation this behaviour runs
    arg,              \* its address argument (minipoolAddress, nodeAddress)
    chain,            \* the remote state at the queried block
    count,            \* the remote collection's size; for the helpers the
                      \* length of the address list passed
    pc,               \* position of the calling goroutine
    minipoolCount,    \* local of the address getters
    addresses,        \* []common.Address
    versions,         \* []uint8
    minipoolDetails,  \* []NativeMinipoolDetails
    details,          \* the local record of GetNativeMinipoolDetails and of
                      \* GetOracleDaoMemberDetails
    memberCount,      \* local of getOdaoAddresses
    memberDetails,    \* []OracleDaoMemberDetails
    i,                \* the chunk loop's variable
    wg,               \* the errgroup's workers: chunk start -> worker
    wgErr,            \* the errgroup's first reported error
    Multicaller,      \* the calls held by contracts.Multicaller
    executed,         \* the batch executions that returned: the step,
                      \* the mode, whether a call of the batch failed and
                      \* whether the execution returned an error
    states,           \* GetMultiChallengeStatesFast: the states slice
    other,            \* position of a second invocation of
                      \* GetNativeMinipoolDetails running concurrently on the
                      \* same contracts ("none": there is none)
    ret,              \* what the operation returned
    issued,           \* history: the batches sent, by phase
    overtook,         \* history: a worker returned while the worker of an
                      \* earlier chunk was still running
    locks,            \* the package-level mutexes: the goroutine that holds
                      \* each (0: unlocked)
    lookup            \* the goroutines calling a contract getter: goroutine
                      \* -> the mutex it takes, its position, what it calls
                      \* and the error it returns

vars == <<op, arg, chain, count, pc, minipoolCount, addresses, versions,
          minipoolDetails, details, memberCount, memberDetails, i, wg, wgErr,
          Multicaller, executed, states, other, ret, issued, overtook,
          locks, lookup>>

----------------------------------------------------------------------------
(* Program constants *)

minipoolBatchSize == 100
minipoolCompleteShareBatchSize == 500
minipoolAddressBatchSize == 1000
minipoolVersionBatchSize == 500
oDaoAddressBatchSize == 1000
oDaoDetailsBatchSize == 50
challengeStateBatchSize == 500

----------------------------------------------------------------------------
(* Bounds of the model *)

\* The errgroup limit of package state, a fixed positive number.  Its
\* declaration is in a file that is not among the sources; the model takes
\* a value that the three chunks of the long lists exceed.
threadLimit == 2

MaxVersion == 4       \* remote contracts report versions 1..MaxVersion
MaxWei == 2           \* remote ETH balances are 0..MaxWei
RefundWei == 1        \* every minipool's node refund balance
ElBlockNumber == 7    \* the block height held by the contracts passed in

\* Sizes of the remote collection or of the address list, by operation
Counts == [all |-> {0, 1, 2, 250}, node |-> {0, 1, 2, 250}, single |-> {2},
           helpers |-> {0, 1, 2, 250}, getVersions |-> {501},
           shares |-> {0, 2, 501},
           odaoAll |-> {0, 1, 2, 201}, odaoSingle |-> {2},
           challenges |-> {0, 2, 1001}, bytecode |-> {0}]

\* The argument, by operation: none, a node, a minipool, a member; the
\* beacon balance of the first record; how many more challenged indices
\* than proposal IDs are passed; whether GetMinipoolBytecode is passed the
\* address of the legacy factory
Args == [all |-> {0}, node |-> {1}, single |-> {2, 3}, helpers |-> {0},
         getVersions |-> {0}, shares |-> {0, 1},
         odaoAll |-> {0}, odaoSingle |-> {10, 11},
         challenges |-> {0, 1}, bytecode |-> {0, 1}]

\* The operations on minipools and those on Oracle DAO members
MinipoolOps == {"all", "node", "single", "helpers", "getVersions", "shares"}
OdaoOps == {"odaoAll", "odaoSingle"}
Ops == MinipoolOps \cup OdaoOps \cup {"challenges", "bytecode"}

----------------------------------------------------------------------------
(* Values *)

Nil == << >>
Big(v) == <<v>>
Val(b) == b[1]
zero == Big(0)

\* big.Int.Cmp
Cmp(x, y) == IF Val(x) < Val(y) THEN -1 ELSE IF Val(x) > Val(y) THEN 1 ELSE 0

BoolFields ==
    {"Exists", "Finalised", "NodeDepositAssigned", "UserDepositAssigned",
     "UseLatestDelegate", "UserDistributed", "Slashed", "IsVacant",
     "ReduceBondCancelled"}

BigFields ==
    {"StatusBlock", "StatusTime", "NodeFee", "NodeDepositBalance",
     "UserDepositBalance", "UserDepositAssignedTime", "PenaltyCount",
     "PenaltyRate", "Balance", "DistributableBalance", "NodeShareOfBalance",
     "UserShareOfBalance", "NodeRefundBalance",
     "NodeShareOfBalanceIncludingBeacon", "UserShareOfBalanceIncludingBeacon",
     "NodeShareOfBeaconBalance", "UserShareOfBeaconBalance",
     "LastBondReductionTime", "LastBondReductionPrevValue",
     "LastBondReductionPrevNodeFee", "ReduceBondTime", "ReduceBondValue",
     "PreMigrationBalance"}

ValueFields ==
    {"MinipoolAddress", "Pubkey", "StatusRaw", "DepositTypeRaw", "Delegate",
     "PreviousDelegate", "EffectiveDelegate", "NodeAddress", "Version",
     "WithdrawalCredentials", "Status", "DepositType"}

Fields == BoolFields \cup BigFields \cup ValueFields

\* The zero value of the struct
NativeMinipoolDetails ==
    [f \in Fields |-> IF f \in BigFields THEN Nil
                      ELSE IF f \in BoolFields THEN FALSE ELSE 0]

\* time.Time: the zero value, and the instant convertToTime makes of a raw
\* number of seconds; the conversion of a nil raw value does not return
ZeroTime == <<"time">>
convertToTime(raw) == IF raw = Nil THEN <<"panic">> ELSE <<"time", Val(raw)>>

\* The zero value of the Oracle DAO member struct
OracleDaoMemberDetails ==
    [Address |-> 0, Exists |-> FALSE, ID |-> 0, Url |-> 0,
     JoinedTime |-> ZeroTime, LastProposalTime |-> ZeroTime,
     RPLBondAmount |-> Nil, ReplacementAddress |-> 0, IsChallenged |-> FALSE,
     joinedTimeRaw |-> Nil, lastProposalTimeRaw |-> Nil]

----------------------------------------------------------------------------
(* The remote state.  A minipool's kind says what its contract answers:    *)
(* whether version() exists, the version it reports, its ETH balance.  The *)
(* minipools at even addresses share one kind, those at odd addresses      *)
(* another.                                                                *)

Kinds ==
    {k \in [Success : BOOLEAN, version : 1..MaxVersion, balance : 0..MaxWei] :
        k.Success \/ k.version = 1}

\* The kind of the minipools at odd addresses: a version 3 contract holding
\* the largest balance
BaseKinds == {k \in Kinds : k.Success /\ k.version = 3 /\ k.balance = MaxWei}

KindOf(a) == chain[a % 2]

\* The version getMinipoolVersionsFast resolves for the minipool at a
ResolvedVersion(a) == IF KindOf(a).Success THEN KindOf(a).version ELSE 1

\* RocketMinipoolManager.getMinipoolAt(index)
getMinipoolAt(idx) == idx + 2

\* RocketMinipoolManager.getNodeMinipoolAt(node, index)
getNodeMinipoolAt(node, idx) == count + 1 - idx

\* RocketDAONodeTrusted.getMemberAt(index)
getMemberAt(idx) == idx + 10

\* The split a minipool contract computes
calculateNodeShare(x) == x \div 2
calculateUserShare(x) == x - (x \div 2)

\* What the call method(a, x) answers at the queried block, as the value its
\* output slot receives
RemoteValue(method, a, x) ==
    CASE method = "version" -> KindOf(a).version
      [] method = "getMemberAt" -> getMemberAt(x)
      [] method \in {"getMemberIsValid", "getMemberIsChallenged"} -> TRUE
      [] method \in {"getMemberID", "getMemberUrl"} -> a
      [] method = "getMemberReplacedAddress" -> a + 1
      [] method = "getMemberJoinedTime" -> Big(a + 1)
      [] method = "getMemberLastProposalTime" -> Big(a + 2)
      [] method = "getNodeRefundBalance" -> Big(RefundWei)
      [] method = "calculateNodeShare" -> Big(calculateNodeShare(x))
      [] method = "calculateUserShare" -> Big(calculateUserShare(x))
      [] method = "getStatus" -> a % 5
      [] method = "getChallengeState" -> (2 * a + x) % 4
      [] method = "getMinipoolDepositType" -> 1 + (a % 4)
      [] method \in {"getMinipoolExists", "getMinipoolRPLSlashed", "getFinalised",
                     "getNodeDepositAssigned", "getUserDepositAssigned",
                     "getUseLatestDelegate", "getUserDistributed", "getVacant",
                     "getReduceBondCancelled"} -> TRUE
      [] method \in {"getMinipoolPubkey", "getMinipoolWithdrawalCredentials",
                     "getDelegate", "getPreviousDelegate", "getEffectiveDelegate",
                     "getNodeAddress"} -> a
      [] OTHER -> Big(a)

----------------------------------------------------------------------------
(* Call batches.  A call descriptor is (method, target, arg, slot, out):   *)
(* the method called, its address argument, its numeric argument, and the  *)
(* output binding: the index of the array element and the field of that    *)
(* element ("" when the element itself is the output); for the calls of    *)
(* GetNativeMinipoolDetails the slot tells whose local record is bound, 0   *)
(* this invocation's and 1 the second invocation's.  The batch of an        *)
(* address or version getter is the list of its calls.  The batch of a     *)
(* round keeps its calls by the loop iteration j that added them: the list *)
(* the multicaller holds is their concatenation in ascending j.            *)

Call(method, target, x, slot, out) ==
    [method |-> method, target |-> target, arg |-> x, slot |-> slot, out |-> out]

\* The slice after an execution decoded the results of the calls that
\* succeeded into the elements they are bound to
DecodeSlice(slice, calls, success) ==
    LET answered == {p \in 1..Len(calls) : success[p]}
        Into(slots) ==
            [j \in DOMAIN slice |->
                IF j \in slots
                THEN LET p == CHOOSE q \in answered : calls[q].slot = j
                     IN  RemoteValue(calls[p].method, calls[p].target, calls[p].arg)
                ELSE slice[j]]
    IN  CHOOSE decoded \in {Into(slots) : slots \in {{calls[p].slot : p \in answered}}} : TRUE

\* The calls of a batch whose outputs are bound to the record of slot
BoundTo(slot, cs) == SelectSeq(cs, LAMBDA c : c.slot = slot)

\* The record d after a successful execution decoded the results of the
\* calls cs into their output fields
Decode(d, cs) ==
    [f \in DOMAIN d |->
        LET ps == {p \in 1..Len(cs) : cs[p].out = f} IN
        IF ps = {} THEN d[f]
        ELSE LET p == CHOOSE q \in ps : \A r \in ps : r <= q
             IN  RemoteValue(cs[p].method, cs[p].target, cs[p].arg)]

\* minipool.NewMinipoolFromVersion succeeds: its body is not among the
\* sources; the supported schema versions are 1, 2 and 3
NewMinipoolFromVersion(version) == version \in {1, 2, 3}

\* The v3+ fields, in the order their calls are added
AtlasCalls ==
    << <<"UserDistributed", "getUserDistributed">>,
       <<"IsVacant", "getVacant">>,
       <<"PreMigrationBalance", "getPreMigrationBalance">>,
       <<"ReduceBondTime", "getReduceBondTime">>,
       <<"ReduceBondCancelled", "getReduceBondCancelled">>,
       <<"LastBondReductionTime", "getLastBondReductionTime">>,
       <<"LastBondReductionPrevValue", "getLastBondReductionPrevValue">>,
       <<"LastBondReductionPrevNodeFee", "getLastBondReductionPrevNodeFee">>,
       <<"ReduceBondValue", "getReduceBondValue">> >>

AtlasFields == {AtlasCalls[p][1] : p \in 1..Len(AtlasCalls)}

RedstoneCalls ==
    << <<"Exists", "getMinipoolExists">>,
       <<"Pubkey", "getMinipoolPubkey">>,
       <<"WithdrawalCredentials", "getMinipoolWithdrawalCredentials">>,
       <<"Slashed", "getMinipoolRPLSlashed">>,
       <<"StatusRaw", "getStatus">>,
       <<"StatusBlock", "getStatusBlock">>,
       <<"StatusTime", "getStatusTime">>,
       <<"Finalised", "getFinalised">>,
       <<"NodeFee", "getNodeFee">>,
       <<"NodeDepositBalance", "getNodeDepositBalance">>,
       <<"NodeDepositAssigned", "getNodeDepositAssigned">>,
       <<"UserDepositBalance", "getUserDepositBalance">>,
       <<"UserDepositAssigned", "getUserDepositAssigned">>,
       <<"UserDepositAssignedTime", "getUserDepositAssignedTime">>,
       <<"UseLatestDelegate", "getUseLatestDelegate">>,
       <<"Delegate", "getDelegate">>,
       <<"PreviousDelegate", "getPreviousDelegate">>,
       <<"EffectiveDelegate", "getEffectiveDelegate">>,
       <<"NodeAddress", "getNodeAddress">>,
       <<"NodeRefundBalance", "getNodeRefundBalance">> >>

PenaltyCalls ==
    << <<"PenaltyCount", "getUint">>,
       <<"PenaltyRate", "getUint">>,
       <<"DepositTypeRaw", "getMinipoolDepositType">> >>

AddCalls(list, address, j) ==
    [p \in 1..Len(list) |-> Call(list[p][2], address, 0, j, list[p][1])]

\* An addMinipoolDetailsCalls that also adds the calls of the v3+ fields it
\* has set to their defaults
addMinipoolDetailsCallsBindingDefaults(d, j) ==
    LET address == d["MinipoolAddress"] IN
    IF ~NewMinipoolFromVersion(d["Version"])
    THEN [details |-> d, calls |-> << >>, err |-> TRUE]
    ELSE [details |-> [f \in Fields |->
                          IF f \in AtlasFields /\ d["Version"] < 3
                          THEN (IF f \in BoolFields THEN FALSE ELSE Big(0))
                          ELSE d[f]],
          calls |-> AddCalls(RedstoneCalls, address, j) \o AddCalls(AtlasCalls, address, j)
                    \o AddCalls(PenaltyCalls, address, j),
          err |-> FALSE]

\* addMinipoolDetailsCalls(d): the record as the function leaves it, the
\* calls it added to the multicaller, and whether it returned an error
addMinipoolDetailsCalls(d, j) ==
    LET address == d["MinipoolAddress"] IN
    IF ~NewMinipoolFromVersion(d["Version"])
    THEN [details |-> d, calls |-> << >>, err |-> TRUE]
    ELSE IF d["Version"] < 3
    THEN [details |-> [f \in Fields |->
                          IF f \in AtlasFields
                          THEN (IF f \in BoolFields THEN FALSE ELSE Big(0))
                          ELSE d[f]],
          calls |-> AddCalls(RedstoneCalls, address, j) \o AddCalls(PenaltyCalls, address, j),
          err |-> FALSE]
    ELSE [details |-> d,
          calls |-> AddCalls(RedstoneCalls, address, j) \o AddCalls(AtlasCalls, address, j)
                    \o AddCalls(PenaltyCalls, address, j),
          err |-> FALSE]

\* addMinipoolShareCalls(d)
addMinipoolShareCalls(d, j) ==
    LET address == d["MinipoolAddress"]
        dist == Big(Val(d["Balance"]) - Val(d["NodeRefundBalance"]))
        d1 == [d EXCEPT !["DistributableBalance"] = dist]
    IN
    IF ~NewMinipoolFromVersion(d["Version"])
    THEN [details |-> d, calls |-> << >>, err |-> TRUE]
    ELSE IF Cmp(dist, zero) >= 0
    THEN [details |-> d1,
          calls |-> << Call("calculateNodeShare", address, Val(dist), j, "NodeShareOfBalance"),
                       Call("calculateUserShare", address, Val(dist), j, "UserShareOfBalance") >>,
          err |-> FALSE]
    ELSE [details |-> [d1 EXCEPT !["NodeShareOfBalance"] = Big(0),
                                 !["UserShareOfBalance"] = Big(0)],
          calls |-> << >>,
          err |-> FALSE]

\* A fixup that clears the raw status it has converted
fixupMinipoolDetailsClearingRaw(d) ==
    [d EXCEPT !["Status"] = d["StatusRaw"], !["DepositType"] = d["DepositTypeRaw"],
              !["StatusRaw"] = 0]

\* fixupMinipoolDetails(d)
fixupMinipoolDetails(d) ==
    [d EXCEPT !["Status"] = d["StatusRaw"], !["DepositType"] = d["DepositTypeRaw"]]

----------------------------------------------------------------------------
(* Errors, the errgroup and the batch execution *)

\* An error is the list of its messages, outermost first; << >> is nil
NoError == << >>
Wrap(msg, err) == <<msg>> \o err

NoReturn == [err |-> NoError, value |-> "none"]
Return(err, value) == [err |-> err, value |-> value]

Worker(status, calls) == [status |-> status, calls |-> calls]

Running == {k \in DOMAIN wg : wg[k].status = "running"}

\* A group in which a worker that returned an error keeps its slot
CanGoFailedKeepsSlot ==
    Cardinality({k \in DOMAIN wg : wg[k].status # "done"}) < threadLimit

\* A group without a limit
CanGoUnlimited == TRUE

\* wg.SetLimit(threadLimit): wg.Go blocks while threadLimit workers run
CanGo == Cardinality(Running) < threadLimit

\* A group that keeps no error
ReportNothing(err) == wgErr

\* A group that keeps the last error it is given
ReportLast(err) == err

\* A worker that returns nil whatever the execution of its batch returned
FinishReturningNil(k, err) ==
    /\ wg' = [wg EXCEPT ![k] = [status |-> IF err = NoError THEN "done" ELSE "failed",
                                calls |-> << >>]]
    /\ wgErr' = wgErr
    /\ overtook' = (overtook \/ \E earlier \in DOMAIN wg :
                                   wg[earlier].status = "running" /\ earlier < k)

\* A worker returns err: the group keeps the first error it is given
Report(err) == IF wgErr = NoError THEN err ELSE wgErr

\* A caller that drops the error of wg.Wait
WaitErrDropped == FALSE

\* A Wait that returns while workers are running
WaitReturnsEarly == TRUE

\* wg.Wait() blocks until every worker of the group has returned
WaitReturns == Running = {}

\* if err := wg.Wait(); err != nil
WaitErr == wgErr # NoError

\* A chunk loop that also stops at the first reported error
LoopDoneOrFailed(n) == i >= n \/ wgErr # NoError

\* A chunk loop that tests its condition after the first chunk only
LoopDoneAfterFirst(n) == i >= n /\ i > 0

\* The chunk loop's condition i < count is false
LoopDone(n) == i >= n

\* A chunk end whose clamp is one short
ChunkMaxShort(lo, size, n) == IF lo + size >= n THEN n - 1 ELSE lo + size

\* max := i + size; if max > count { max = count }
ChunkMax(lo, size, n) == IF lo + size > n THEN n ELSE lo + size

Len0(slice) == Cardinality(DOMAIN slice)

\* Call options that name no block: the read runs at the latest block
latestOpts == [BlockNumber |-> Nil]

\* opts := &bind.CallOpts{BlockNumber: contracts.ElBlockNumber}
opts == [BlockNumber |-> Big(ElBlockNumber)]

\* A remote read as the node sees it: the step it belongs to, the chunk
\* [lo, hi) it covers and the block it is executed at.  Every read of the
\* operations is given opts.
Batch(phase, lo, hi) ==
    [phase |-> phase, lo |-> lo, hi |-> hi, block |-> opts.BlockNumber]

\* MultiCaller.FlexibleCall(requireSuccess, opts) returns an error: the
\* round trip failed, or a call failed and success is required.  The
\* multicall package is not among the sources.
FlexibleCallErr(requireSuccess, transportOk, allSucceed) ==
    IF ~transportOk THEN <<"transport">>
    ELSE IF requireSuccess /\ ~allSucceed THEN <<"call failed">>
    ELSE NoError

\* rp.Query executes the one batch it builds in strict mode: its body is
\* not among the sources
Query(transportOk, allSucceed) == FlexibleCallErr(TRUE, transportOk, allSucceed)

\* The mode getMinipoolVersionsFast executes its batches in
VersionsRequireSuccess == FALSE

\* Rounds that allow calls to fail
RoundsAllowFailure == FALSE

\* The mode getBulkMinipoolDetails executes the batches of both rounds in
RoundsRequireSuccess == TRUE

\* The record of a batch execution FlexibleCall(requireSuccess, opts) of a
\* step that returned err; a round trip that failed answered for no call
Execute(phase, requireSuccess, transportOk, allSucceed, err) ==
    executed \cup {[phase |-> phase, requireSuccess |-> requireSuccess,
                    failedCall |-> transportOk /\ ~allSucceed,
                    failed |-> err # NoError]}

\* A worker that sends its batch and sends it again
LaunchReissuing(phase, max, built, calls) ==
    /\ wg' = (i :> Worker(IF built THEN "running" ELSE "failed",
                          IF built THEN calls ELSE << >>)) @@ wg
    /\ wgErr' = IF built THEN wgErr ELSE Report(<<"NewMultiCaller">>)
    /\ issued' = IF built
                 THEN Append(Append(issued, Batch(phase, i, max)), Batch(phase, i, max))
                 ELSE issued

\* Launch of the worker of the chunk [i, max) of a phase: NewMultiCaller
\* fails and the worker returns, or the worker sends a batch of calls
Launch(phase, max, built, calls) ==
    /\ wg' = (i :> Worker(IF built THEN "running" ELSE "failed",
                          IF built THEN calls ELSE << >>)) @@ wg
    /\ wgErr' = IF built THEN wgErr ELSE Report(<<"NewMultiCaller">>)
    /\ issued' = IF built THEN Append(issued, Batch(phase, i, max)) ELSE issued

\* The round trip of worker k's batch returned err
Finish(k, err) ==
    /\ wg' = [wg EXCEPT ![k] = Worker(IF err = NoError THEN "done" ELSE "failed", << >>)]
    /\ wgErr' = IF err = NoError THEN wgErr
                ELSE Report(Wrap("error executing multicall", err))
    /\ overtook' = (overtook \/ \E earlier \in Running : earlier < k)

----------------------------------------------------------------------------
(* GetAllNativeMinipoolDetails, GetNodeNativeMinipoolDetails *)

\* The inputs of an operation: its argument, the collection or list size,
\* the remote state
Inputs(counts) ==
    /\ arg \in Args[op]
    /\ count \in counts
    \* every kind on the short lists, every version and probe outcome at the
    \* largest balance on the long ones; one kind where minipools are not read
    /\ chain \in {c \in [0..1 -> Kinds] :
                    /\ c[1] \in BaseKinds
                    /\ count > 2 => c[0].balance = MaxWei
                    /\ op = "shares" =>
                         /\ c[0].Success
                         /\ count > 2 => c[0].version \in {3, MaxVersion}
                    /\ op \notin MinipoolOps => c[0] \in BaseKinds}

\* A record passed to CalculateCompleteMinipoolShares: the fields it reads
\* as a snapshot of the minipool at index j holds them
SnapshotRecord(j) ==
    LET a == getMinipoolAt(j) IN
    [NativeMinipoolDetails EXCEPT !["MinipoolAddress"] = a,
                                  !["Version"] = ResolvedVersion(a),
                                  !["Balance"] = Big(KindOf(a).balance),
                                  !["NodeRefundBalance"] = Big(RefundWei)]

\* The beacon balances passed along with the records
beaconBalances == [j \in 0..(count - 1) |-> Big((j + arg) % (MaxWei + 1))]

\* The pairs passed to GetMultiChallengeStatesFast
proposalIds == [j \in 0..(count - 1) |-> j % 3]
challengedIndices == [j \in 0..(count + arg - 1) |-> j % 2]

\* A goroutine that has called a contract getter and not yet taken its
\* mutex
Getter(lock, method) == [lock |-> lock, pc |-> "Lock", method |-> method, err |-> NoError]

\* getRocketDAOProtocolVerifier(rp, opts)
getRocketDAOProtocolVerifier == Getter("rocketDAOProtocolVerifierLock", "GetContract")

\* getRocketMinipoolFactory(rp, address, opts): the lookup by name when the
\* address is nil (0), by address otherwise
getRocketMinipoolFactory(address) ==
    Getter("rocketMinipoolFactoryLock",
           IF address = 0 THEN "GetContract" ELSE "GetContractWithAddress")

\* The state an operation starts in: GetMultiChallengeStatesFast runs
\* beside a second call of a function of the verifier, GetMinipoolBytecode
\* beside a second call of itself and a call of a function of the verifier;
\* goroutine 1 is the operation's own
Begin ==
    /\ pc = CASE op = "single" -> "version"
              [] op \in {"helpers", "getVersions"} -> "versions"
              [] op = "odaoAll" -> "memberCount"
              [] op = "odaoSingle" -> "odaoCall"
              [] op = "shares" -> "shares"
              [] op = "challenges" -> "verifier"
              [] op = "bytecode" -> "factory"
              [] OTHER -> "count"
    /\ minipoolCount = 0
    /\ addresses = IF op \in {"helpers", "getVersions"} THEN [j \in 0..(count - 1) |-> getMinipoolAt(j)]
                   ELSE << >>
    /\ versions = [j \in DOMAIN addresses |-> 0]
    /\ minipoolDetails = IF op = "shares"
                         THEN [j \in 0..(count - 1) |-> SnapshotRecord(j)]
                         ELSE << >>
    /\ details = IF op \in OdaoOps THEN OracleDaoMemberDetails
                 ELSE NativeMinipoolDetails
    /\ memberCount = 0
    /\ memberDetails = << >>
    /\ i = 0
    /\ wg = << >>
    /\ wgErr = NoError
    /\ Multicaller = << >>
    /\ other \in IF op = "single" THEN {"none", "version"} ELSE {"none"}
    /\ ret = NoReturn
    /\ issued = << >>
    /\ executed = {}
    /\ states = << >>
    /\ overtook = FALSE
    /\ locks = [rocketDAOProtocolVerifierLock |-> 0, rocketMinipoolFactoryLock |-> 0]
    /\ lookup = CASE op = "challenges" ->
                       1 :> getRocketDAOProtocolVerifier @@ 2 :> getRocketDAOProtocolVerifier
                  [] op = "bytecode" ->
                       1 :> getRocketMinipoolFactory(arg) @@ 2 :> getRocketMinipoolFactory(arg)
                       @@ 3 :> getRocketDAOProtocolVerifier
                  [] OTHER -> << >>

Init ==
    /\ op \in Ops
    /\ Inputs(Counts[op])
    /\ Begin

\* getAllMinipoolAddressesFast, getNodeMinipoolAddressesFast: the binding
\* of the manager or node, the count query and the make.  The query binds
\* no output to the local minipoolCount, which keeps its zero value.
GetMinipoolCount ==
    /\ pc = "count"
    /\ \E transportOk \in BOOLEAN :
         LET err == Query(transportOk, TRUE) IN
         /\ executed' = Execute(pc, TRUE, transportOk, TRUE, err)
         /\ IF err = NoError
            THEN /\ addresses' = [j \in 0..(minipoolCount - 1) |-> 0]
                 /\ pc' = "addresses"
                 /\ ret' = ret
            ELSE /\ pc' = "done"
                 /\ ret' = Return(Wrap("error getting minipool addresses", err), "nil")
                 /\ UNCHANGED addresses
    /\ issued' = Append(issued, Batch("count", 0, 1))
    /\ UNCHANGED <<other, states, memberCount, memberDetails, overtook, op, arg, chain, count, minipoolCount, versions, minipoolDetails,
                   details, i, wg, wgErr, Multicaller>>
    /\ UNCHANGED <<locks, lookup>>

\* The chunk loop of the address getter runs over int(minipoolCount) = 0
\* indices: no worker is launched.  wg.Wait, the return of the list and the
\* caller's error check.
WaitAddresses ==
    /\ pc = "addresses"
    /\ LoopDone(minipoolCount)
    /\ WaitReturns
    /\ IF WaitErr
       THEN /\ pc' = "done"
            /\ ret' = Return(Wrap("error getting minipool addresses", wgErr), "nil")
            /\ UNCHANGED versions
       ELSE /\ pc' = "versions"
            /\ versions' = [j \in DOMAIN addresses |-> 0]
            /\ ret' = ret
    /\ i' = 0
    /\ wg' = << >>
    /\ wgErr' = NoError
    /\ UNCHANGED <<other, states, executed, memberCount, memberDetails, overtook, op, arg, chain, count, minipoolCount, addresses,
                   minipoolDetails, details, Multicaller, issued>>
    /\ UNCHANGED <<locks, lookup>>

\* getMinipoolVersionsFast: wg.Go
LaunchVersions ==
    /\ pc = "versions"
    /\ ~LoopDone(Len0(addresses))
    /\ CanGo
    /\ LET max == ChunkMax(i, minipoolVersionBatchSize, Len0(addresses)) IN
       \E built \in BOOLEAN :
         Launch("versions", max, built,
                [p \in 1..(max - i) |->
                    Call("version", addresses[i + p - 1], 0, i + p - 1, "")])
    /\ i' = i + minipoolVersionBatchSize
    /\ UNCHANGED <<other, states, executed, memberCount, memberDetails, overtook, op, arg, chain, count, pc, minipoolCount, addresses, versions,
                   minipoolDetails, details, Multicaller, ret>>
    /\ UNCHANGED <<locks, lookup>>

\* A version getter whose fallback write leaves out the chunk's start
VersionFallbackNoOffset(vs, results, lo) ==
    [j \in DOMAIN vs |->
        IF j + 1 \in 1..Len(results) /\ ~results[j + 1].Success
        THEN 1
        ELSE vs[j]]

\* A version getter whose fallback write goes to the entity after the one
\* whose probe failed
VersionFallbackNextIndex(vs, results, lo) ==
    [j \in DOMAIN vs |->
        IF (j - lo) \in 1..Len(results) /\ ~results[j - lo].Success
        THEN 1
        ELSE vs[j]]

\* A version getter without the loop over the results
NoVersionFallback(vs, results, lo) == vs

\* for j, result := range results { if !result.Success { versions[j+i] = 1 } }
\* over the versions vs decoded so far, for the worker of the chunk at lo
VersionFallback(vs, results, lo) ==
    [j \in DOMAIN vs |->
        IF (j - lo) + 1 \in 1..Len(results) /\ ~results[(j - lo) + 1].Success
        THEN 1
        ELSE vs[j]]

\* The execution of a version batch returns: the versions of the calls that
\* succeeded are decoded, then the loop over the results runs, then the
\* error is looked at
FinishVersions ==
    /\ pc = "versions"
    /\ \E k \in Running : \E transportOk \in BOOLEAN :
         LET calls == wg[k].calls IN
         \E outcome \in {[p \in 1..Len(calls) |->
                            [Success |-> KindOf(calls[p].target).Success]]} :
         LET err == FlexibleCallErr(VersionsRequireSuccess, transportOk,
                                    \A p \in 1..Len(calls) : outcome[p].Success)
         IN
         \E results \in {IF err = NoError THEN outcome ELSE << >>} :
         \E decoded \in {DecodeSlice(versions, calls,
                                     [p \in 1..Len(calls) |->
                                         err = NoError /\ outcome[p].Success])} :
             /\ Finish(k, err)
             /\ versions' = VersionFallback(decoded, results, k)
             /\ executed' = Execute(pc, VersionsRequireSuccess, transportOk,
                                    \A p \in 1..Len(calls) : outcome[p].Success, err)
    /\ UNCHANGED <<other, states, memberCount, memberDetails, op, arg, chain, count, pc, minipoolCount, addresses,
                   minipoolDetails, details, i, Multicaller, ret, issued>>
    /\ UNCHANGED <<locks, lookup>>

WaitVersions ==
    /\ pc = "versions"
    /\ LoopDone(Len0(addresses))
    /\ WaitReturns
    /\ IF WaitErr
       THEN /\ pc' = "done"
            /\ ret' = Return(Wrap("error getting minipool versions", wgErr), "nil")
       ELSE IF op = "getVersions"
       THEN /\ pc' = "done"
            /\ ret' = Return(NoError, "versions")
       ELSE /\ pc' = "balances"
            /\ ret' = ret
    /\ i' = 0
    /\ wg' = << >>
    /\ wgErr' = NoError
    /\ UNCHANGED <<other, states, executed, memberCount, memberDetails, overtook, op, arg, chain, count, minipoolCount, addresses, versions,
                   minipoolDetails, details, Multicaller, issued>>
    /\ UNCHANGED <<locks, lookup>>

\* getBulkMinipoolDetails: the make and the balance fetch
GetEthBalances ==
    /\ pc = "balances"
    /\ \E transportOk \in BOOLEAN :
         IF transportOk
         THEN /\ minipoolDetails' =
                   [j \in DOMAIN addresses |->
                       [NativeMinipoolDetails EXCEPT
                           !["Balance"] = Big(KindOf(addresses[j]).balance)]]
              /\ pc' = "r1"
              /\ ret' = ret
         ELSE /\ minipoolDetails' = [j \in DOMAIN addresses |-> NativeMinipoolDetails]
              /\ pc' = "done"
              /\ ret' = Return(<<"error getting minipool balances", "transport">>, "nil")
    /\ issued' = Append(issued, Batch("balances", 0, Len0(addresses)))
    /\ UNCHANGED <<other, states, executed, memberCount, memberDetails, overtook, op, arg, chain, count, minipoolCount, addresses, versions,
                   details, i, wg, wgErr, Multicaller>>
    /\ UNCHANGED <<locks, lookup>>

\* A round 1 loop body that takes the version resolved for the first address
Round1FirstVersion(j) ==
    addMinipoolDetailsCalls([minipoolDetails[j] EXCEPT
                                !["MinipoolAddress"] = addresses[j],
                                !["Version"] = versions[0]], j)

\* The body of a round 1 worker's loop for index j: the record and the calls
Round1(j) ==
    addMinipoolDetailsCalls([minipoolDetails[j] EXCEPT
                                !["MinipoolAddress"] = addresses[j],
                                !["Version"] = versions[j]], j)

\* A round 2 loop body that takes the refund of the next record
ShareRoundNextRefund(md, vs, j) ==
    LET n == IF j + 1 \in DOMAIN md THEN j + 1 ELSE j
        refund == IF md[n]["NodeRefundBalance"] = Nil
                  THEN md[j]["NodeRefundBalance"]
                  ELSE Big(Val(md[n]["NodeRefundBalance"]) + Val(md[n]["Balance"]))
    IN  addMinipoolShareCalls([md[j] EXCEPT !["Version"] = vs[j],
                                            !["NodeRefundBalance"] = refund], j)

\* The body of a round 2 worker's loop for index j over the records md and
\* the versions vs: details := &md[j]; details.Version = vs[j];
\* addMinipoolShareCalls(details)
ShareRound(md, vs, j) ==
    addMinipoolShareCalls([md[j] EXCEPT !["Version"] = vs[j]], j)

\* The body of a round 2 worker's loop for index j
Round2(j) == ShareRound(minipoolDetails, versions, j)

\* Round 1: wg.Go
LaunchR1 ==
    /\ pc = "r1"
    /\ ~LoopDone(Len0(addresses))
    /\ CanGo
    /\ LET max == ChunkMax(i, minipoolBatchSize, Len0(addresses)) IN
       \E built \in BOOLEAN :
         /\ Launch("r1", max, built, [j \in i..(max - 1) |-> Round1(j).calls])
         /\ minipoolDetails' =
              IF built
              THEN [j \in DOMAIN minipoolDetails |->
                      IF j \in i..(max - 1) THEN Round1(j).details
                      ELSE minipoolDetails[j]]
              ELSE minipoolDetails
    /\ i' = i + minipoolBatchSize
    /\ UNCHANGED <<other, states, executed, memberCount, memberDetails, overtook, op, arg, chain, count, pc, minipoolCount, addresses, versions,
                   details, Multicaller, ret>>
    /\ UNCHANGED <<locks, lookup>>

\* A round 2 whose worker loses its results when it returns while the
\* worker of an earlier chunk is still running
FinishRoundInOrderOnly(k, err) ==
    /\ Finish(k, err)
    /\ minipoolDetails' =
         IF err = NoError /\ ~(pc = "r2" /\ \E earlier \in Running : earlier < k)
         THEN [j \in DOMAIN minipoolDetails |->
                 IF j \in DOMAIN wg[k].calls
                 THEN Decode(minipoolDetails[j], wg[k].calls[j])
                 ELSE minipoolDetails[j]]
         ELSE minipoolDetails
    /\ UNCHANGED <<other, states, memberCount, memberDetails, op, arg, chain, count, pc, minipoolCount, addresses, versions,
                   details, i, Multicaller, ret, issued>>

\* The strict execution of a round's batch returns
FinishRound(k, err) ==
    /\ Finish(k, err)
    /\ minipoolDetails' =
         IF err = NoError
         THEN [j \in DOMAIN minipoolDetails |->
                 IF j \in DOMAIN wg[k].calls
                 THEN Decode(minipoolDetails[j], wg[k].calls[j])
                 ELSE minipoolDetails[j]]
         ELSE minipoolDetails
    /\ UNCHANGED <<other, states, memberCount, memberDetails, op, arg, chain, count, pc, minipoolCount, addresses, versions,
                   details, i, Multicaller, ret, issued>>

FinishR1 ==
    /\ pc = "r1"
    /\ \E k \in Running : \E transportOk, allSucceed \in BOOLEAN :
         LET err == FlexibleCallErr(RoundsRequireSuccess, transportOk, allSucceed) IN
         /\ FinishRound(k, err)
         /\ executed' = Execute(pc, RoundsRequireSuccess, transportOk, allSucceed, err)
    /\ UNCHANGED <<locks, lookup>>

WaitR1 ==
    /\ pc = "r1"
    /\ LoopDone(Len0(addresses))
    /\ WaitReturns
    /\ IF WaitErr
       THEN /\ pc' = "done"
            /\ ret' = Return(Wrap("error getting minipool details r1", wgErr), "nil")
       ELSE /\ pc' = "r2"
            /\ ret' = ret
    /\ i' = 0
    /\ wg' = << >>
    /\ wgErr' = NoError
    /\ UNCHANGED <<other, states, executed, memberCount, memberDetails, overtook, op, arg, chain, count, minipoolCount, addresses, versions,
                   minipoolDetails, details, Multicaller, issued>>
    /\ UNCHANGED <<locks, lookup>>

\* Round 2: wg2.Go
LaunchR2 ==
    /\ pc = "r2"
    /\ ~LoopDone(Len0(addresses))
    /\ CanGo
    /\ LET max == ChunkMax(i, minipoolBatchSize, Len0(addresses)) IN
       \E built \in BOOLEAN :
         /\ Launch("r2", max, built, [j \in i..(max - 1) |-> Round2(j).calls])
         /\ minipoolDetails' =
              IF built
              THEN [j \in DOMAIN minipoolDetails |->
                      IF j \in i..(max - 1) THEN Round2(j).details
                      ELSE minipoolDetails[j]]
              ELSE minipoolDetails
    /\ i' = i + minipoolBatchSize
    /\ UNCHANGED <<other, states, executed, memberCount, memberDetails, overtook, op, arg, chain, count, pc, minipoolCount, addresses, versions,
                   details, Multicaller, ret>>
    /\ UNCHANGED <<locks, lookup>>

FinishR2 ==
    /\ pc = "r2"
    /\ \E k \in Running : \E transportOk, allSucceed \in BOOLEAN :
         LET err == FlexibleCallErr(RoundsRequireSuccess, transportOk, allSucceed) IN
         /\ FinishRound(k, err)
         /\ executed' = Execute(pc, RoundsRequireSuccess, transportOk, allSucceed, err)
    /\ UNCHANGED <<locks, lookup>>

WaitR2 ==
    /\ pc = "r2"
    /\ LoopDone(Len0(addresses))
    /\ WaitReturns
    /\ IF WaitErr
       THEN /\ pc' = "done"
            /\ ret' = Return(Wrap("error getting minipool details r2", wgErr), "nil")
       ELSE /\ pc' = "fixup"
            /\ ret' = ret
    /\ i' = 0
    /\ wg' = << >>
    /\ wgErr' = NoError
    /\ UNCHANGED <<other, states, executed, memberCount, memberDetails, overtook, op, arg, chain, count, minipoolCount, addresses, versions,
                   minipoolDetails, details, Multicaller, issued>>
    /\ UNCHANGED <<locks, lookup>>

\* The postprocessing loop and the return
Postprocess ==
    /\ pc = "fixup"
    /\ minipoolDetails' =
         [j \in DOMAIN minipoolDetails |-> fixupMinipoolDetails(minipoolDetails[j])]
    /\ pc' = "done"
    /\ ret' = Return(NoError, "minipoolDetails")
    /\ UNCHANGED <<other, states, executed, memberCount, memberDetails, overtook, op, arg, chain, count, minipoolCount, addresses, versions,
                   details, i, wg, wgErr, Multicaller, issued>>
    /\ UNCHANGED <<locks, lookup>>

----------------------------------------------------------------------------
(* GetNativeMinipoolDetails *)

\* The version query, and when it succeeds the calls added to
\* contracts.Multicaller
GetContractVersion ==
    /\ pc = "version"
    /\ \E transportOk \in BOOLEAN :
         LET err == Query(transportOk, KindOf(arg).Success)
             added == addMinipoolDetailsCalls(
                          [details EXCEPT
                              !["MinipoolAddress"] = arg,
                              !["Version"] = RemoteValue("version", arg, 0)], 0)
         IN
         /\ executed' = Execute(pc, TRUE, transportOk, KindOf(arg).Success, err)
         /\ IF err = NoError
            THEN /\ details' = added.details
                 /\ Multicaller' = Multicaller \o added.calls
                 /\ pc' = "call"
                 /\ ret' = ret
            ELSE /\ details' = [details EXCEPT !["MinipoolAddress"] = arg]
                 /\ pc' = "done"
                 /\ ret' = Return(Wrap("error getting minipool version", err), "zero")
                 /\ UNCHANGED Multicaller
    /\ issued' = Append(issued, Batch("version", 0, 1))
    /\ UNCHANGED <<other, states, memberCount, memberDetails, overtook, op, arg, chain, count, minipoolCount, addresses, versions,
                   minipoolDetails, i, wg, wgErr>>
    /\ UNCHANGED <<locks, lookup>>

\* contracts.Multicaller.FlexibleCall(true, opts), the fixup and the return
FlexibleCall ==
    /\ pc = "call"
    /\ \E transportOk, allSucceed \in BOOLEAN :
         LET err == FlexibleCallErr(TRUE, transportOk, allSucceed) IN
         /\ executed' = Execute(pc, TRUE, transportOk, allSucceed, err)
         /\ IF err = NoError
            THEN /\ details' = fixupMinipoolDetails(Decode(details, BoundTo(0, Multicaller)))
                 /\ ret' = Return(NoError, "details")
            ELSE /\ details' = details
                 /\ ret' = Return(Wrap("error executing multicall", err), "zero")
    /\ pc' = "done"
    /\ issued' = Append(issued, Batch("call", 0, 1))
    /\ UNCHANGED <<other, states, memberCount, memberDetails, overtook, op, arg, chain, count, minipoolCount, addresses, versions,
                   minipoolDetails, i, wg, wgErr, Multicaller>>
    /\ UNCHANGED <<locks, lookup>>

\* The minipool of the second invocation
otherAddress == arg + 2

\* The second invocation: the version query, and when it succeeds the calls
\* added to the same contracts.Multicaller, bound to its own record
OtherGetContractVersion ==
    /\ other = "version"
    /\ \E transportOk \in BOOLEAN :
         LET err == Query(transportOk, KindOf(otherAddress).Success)
             added == addMinipoolDetailsCalls(
                          [NativeMinipoolDetails EXCEPT
                              !["MinipoolAddress"] = otherAddress,
                              !["Version"] = RemoteValue("version", otherAddress, 0)], 1)
         IN
         IF err = NoError
         THEN /\ Multicaller' = Multicaller \o added.calls
              /\ other' = "call"
         ELSE /\ other' = "done"
              /\ UNCHANGED Multicaller
    /\ UNCHANGED <<executed, states, memberCount, memberDetails, overtook, op, arg, chain,
                   count, pc, minipoolCount, addresses, versions, minipoolDetails,
                   details, i, wg, wgErr, ret, issued>>
    /\ UNCHANGED <<locks, lookup>>

\* The second invocation: contracts.Multicaller.FlexibleCall(true, opts)
\* and the return
OtherFlexibleCall ==
    /\ other = "call"
    /\ other' = "done"
    /\ UNCHANGED <<executed, states, memberCount, memberDetails, overtook, op, arg, chain,
                   count, pc, minipoolCount, addresses, versions, minipoolDetails,
                   details, i, wg, wgErr, Multicaller, ret, issued>>
    /\ UNCHANGED <<locks, lookup>>

----------------------------------------------------------------------------
(* CalculateCompleteMinipoolShares *)

\* A loop body that adds the calls for a balance that is zero as well
CompleteShareCallsForZero(d, j) ==
    LET address == d["MinipoolAddress"]
        beaconBalance == beaconBalances[j]
        totalBalance == Big(Val(beaconBalances[j]) + Val(d["Balance"])
                            - Val(d["NodeRefundBalance"]))
    IN
    IF ~NewMinipoolFromVersion(d["Version"])
    THEN [details |-> d, calls |-> << >>, err |-> TRUE]
    ELSE [details |->
            [d EXCEPT
               !["NodeShareOfBeaconBalance"] =
                   IF Cmp(beaconBalance, zero) >= 0 THEN @ ELSE Big(0),
               !["UserShareOfBeaconBalance"] =
                   IF Cmp(beaconBalance, zero) >= 0 THEN @ ELSE Big(0),
               !["NodeShareOfBalanceIncludingBeacon"] =
                   IF Cmp(totalBalance, zero) >= 0 THEN @ ELSE Big(0),
               !["UserShareOfBalanceIncludingBeacon"] =
                   IF Cmp(totalBalance, zero) >= 0 THEN @ ELSE Big(0)],
          calls |->
            (IF Cmp(beaconBalance, zero) >= 0
             THEN << Call("calculateNodeShare", address, Val(beaconBalance), j,
                          "NodeShareOfBeaconBalance"),
                     Call("calculateUserShare", address, Val(beaconBalance), j,
                          "UserShareOfBeaconBalance") >>
             ELSE << >>)
            \o (IF Cmp(totalBalance, zero) >= 0
                THEN << Call("calculateNodeShare", address, Val(totalBalance), j,
                             "NodeShareOfBalanceIncludingBeacon"),
                        Call("calculateUserShare", address, Val(totalBalance), j,
                             "UserShareOfBalanceIncludingBeacon") >>
                ELSE << >>),
          err |-> FALSE]

\* The body of a worker's loop for index j: the record as the iteration
\* leaves it, the calls it added, and whether it returned an error
CompleteShareCalls(d, j) ==
    LET address == d["MinipoolAddress"]
        beaconBalance == beaconBalances[j]
        totalBalance == Big(Val(beaconBalances[j]) + Val(d["Balance"])
                            - Val(d["NodeRefundBalance"]))
    IN
    IF ~NewMinipoolFromVersion(d["Version"])
    THEN [details |-> d, calls |-> << >>, err |-> TRUE]
    ELSE [details |->
            [d EXCEPT
               !["NodeShareOfBeaconBalance"] =
                   IF Cmp(beaconBalance, zero) > 0 THEN @ ELSE Big(0),
               !["UserShareOfBeaconBalance"] =
                   IF Cmp(beaconBalance, zero) > 0 THEN @ ELSE Big(0),
               !["NodeShareOfBalanceIncludingBeacon"] =
                   IF Cmp(totalBalance, zero) > 0 THEN @ ELSE Big(0),
               !["UserShareOfBalanceIncludingBeacon"] =
                   IF Cmp(totalBalance, zero) > 0 THEN @ ELSE Big(0)],
          calls |->
            (IF Cmp(beaconBalance, zero) > 0
             THEN << Call("calculateNodeShare", address, Val(beaconBalance), j,
                          "NodeShareOfBeaconBalance"),
                     Call("calculateUserShare", address, Val(beaconBalance), j,
                          "UserShareOfBeaconBalance") >>
             ELSE << >>)
            \o (IF Cmp(totalBalance, zero) > 0
                THEN << Call("calculateNodeShare", address, Val(totalBalance), j,
                             "NodeShareOfBalanceIncludingBeacon"),
                        Call("calculateUserShare", address, Val(totalBalance), j,
                             "UserShareOfBalanceIncludingBeacon") >>
                ELSE << >>),
          err |-> FALSE]

\* wg.Go: NewMultiCaller fails and the worker returns; or its loop runs up
\* to the first record whose contract cannot be made and the worker returns
\* the error without sending; or the loop ends and the worker sends the
\* batch
LaunchShares ==
    /\ pc = "shares"
    /\ ~LoopDone(Len0(minipoolDetails))
    /\ CanGo
    /\ LET max == ChunkMax(i, minipoolCompleteShareBatchSize, Len0(minipoolDetails)) IN
       \E bad \in {{j \in i..(max - 1) : CompleteShareCalls(minipoolDetails[j], j).err}} :
       \E stop \in {IF bad = {} THEN max ELSE CHOOSE j \in bad : \A b \in bad : j <= b} :
       \E built \in BOOLEAN :
         /\ IF built /\ bad # {}
            THEN /\ wg' = (i :> Worker("failed", << >>)) @@ wg
                 /\ wgErr' = Report(<<"NewMinipoolFromVersion">>)
                 /\ issued' = issued
            ELSE Launch("shares", max, built,
                        [j \in i..(max - 1) |->
                            CompleteShareCalls(minipoolDetails[j], j).calls])
         /\ minipoolDetails' =
              IF built
              THEN [j \in DOMAIN minipoolDetails |->
                      IF j \in i..(stop - 1)
                      THEN CompleteShareCalls(minipoolDetails[j], j).details
                      ELSE minipoolDetails[j]]
              ELSE minipoolDetails
    /\ i' = i + minipoolCompleteShareBatchSize
    /\ UNCHANGED <<other, states, executed, memberCount, memberDetails, overtook, op,
                   arg, chain, count, pc, minipoolCount, addresses, versions,
                   details, Multicaller, ret>>
    /\ UNCHANGED <<locks, lookup>>

\* The strict execution of a share batch returns
FinishShares ==
    /\ pc = "shares"
    /\ \E k \in Running : \E transportOk, allSucceed \in BOOLEAN :
         LET err == FlexibleCallErr(TRUE, transportOk, allSucceed) IN
         /\ FinishRound(k, err)
         /\ executed' = Execute(pc, TRUE, transportOk, allSucceed, err)
    /\ UNCHANGED <<locks, lookup>>

\* wg.Wait and the return
WaitShares ==
    /\ pc = "shares"
    /\ LoopDone(Len0(minipoolDetails))
    /\ WaitReturns
    /\ ret' = IF WaitErr
              THEN Return(Wrap("error calculating minipool shares", wgErr), "none")
              ELSE Return(NoError, "none")
    /\ pc' = "done"
    /\ i' = 0
    /\ wg' = << >>
    /\ wgErr' = NoError
    /\ UNCHANGED <<other, states, executed, memberCount, memberDetails, overtook, op,
                   arg, chain, count, minipoolCount, addresses, versions,
                   minipoolDetails, details, Multicaller, issued>>
    /\ UNCHANGED <<locks, lookup>>

----------------------------------------------------------------------------
(* GetMultiChallengeStatesFast *)

\* A mutex that is not released when the lookup failed
UnlockOnSuccess(c) ==
    /\ lookup[c].pc = "Unlock"
    /\ locks' = IF lookup[c].err = NoError THEN [locks EXCEPT ![lookup[c].lock] = 0]
                ELSE locks
    /\ lookup' = [lookup EXCEPT ![c].pc = "returned"]

\* Lock.Lock(): blocks while the mutex is held
Lock(c) ==
    /\ lookup[c].pc = "Lock"
    /\ locks[lookup[c].lock] = 0
    /\ locks' = [locks EXCEPT ![lookup[c].lock] = c]
    /\ lookup' = [lookup EXCEPT ![c].pc = "GetContract"]

\* The lookup made while holding the mutex: it returns the contract or an
\* error
GetContract(c) ==
    /\ lookup[c].pc = "GetContract"
    /\ \E found \in BOOLEAN :
         lookup' = [lookup EXCEPT ![c].pc = "Unlock",
                                  ![c].err = IF found THEN NoError
                                             ELSE <<lookup[c].method>>]
    /\ UNCHANGED locks

\* The deferred Lock.Unlock(), run as the getter returns
Unlock(c) ==
    /\ lookup[c].pc = "Unlock"
    /\ locks' = [locks EXCEPT ![lookup[c].lock] = 0]
    /\ lookup' = [lookup EXCEPT ![c].pc = "returned"]

\* What the operation's state variables hold is not touched by a getter
OperationVars ==
    <<op, arg, chain, count, pc, minipoolCount, addresses, versions,
      minipoolDetails, details, memberCount, memberDetails, i, wg, wgErr,
      Multicaller, executed, states, other, ret, issued, overtook>>

\* A goroutine takes the mutex of the getter it called
GetterLock ==
    /\ \E c \in DOMAIN lookup : Lock(c)
    /\ UNCHANGED OperationVars

\* The goroutine holding a mutex makes the lookup
GetterGetContract ==
    /\ \E c \in DOMAIN lookup : GetContract(c)
    /\ UNCHANGED OperationVars

\* A getter returns and releases its mutex
GetterUnlock ==
    /\ \E c \in DOMAIN lookup : Unlock(c)
    /\ UNCHANGED OperationVars

\* GetMinipoolBytecode after the getter returned: the error of the lookup,
\* or the call of getMinipoolBytecode on the factory
GetMinipoolBytecode ==
    /\ pc = "factory"
    /\ lookup[1].pc = "returned"
    /\ \E transportOk \in BOOLEAN :
         ret' = IF lookup[1].err # NoError THEN Return(lookup[1].err, "empty")
                ELSE IF ~transportOk
                THEN Return(Wrap("error getting minipool contract bytecode", <<"transport">>), "empty")
                ELSE Return(NoError, "bytecode")
    /\ pc' = "done"
    /\ UNCHANGED <<other, states, executed, memberCount, memberDetails, overtook, op, arg,
                   chain, count, minipoolCount, addresses, versions,
                   minipoolDetails, details, i, wg, wgErr, Multicaller, issued>>
    /\ UNCHANGED <<locks, lookup>>

\* The return of the getter of the verifier contract, the comparison of the
\* two lengths and the make
GetVerifier ==
    /\ pc = "verifier"
    /\ lookup[1].pc = "returned"
    /\ \E found \in {lookup[1].err = NoError} :
         IF ~found
         THEN /\ pc' = "done"
              /\ ret' = Return(lookup[1].err, "nil")
              /\ states' = states
         ELSE IF count # Len0(challengedIndices)
         THEN /\ pc' = "done"
              /\ ret' = Return(<<"have proposal IDs but challenge indices">>, "nil")
              /\ states' = states
         ELSE /\ pc' = "challenges"
              /\ ret' = ret
              /\ states' = [j \in 0..(count - 1) |-> 0]
    /\ UNCHANGED <<other, executed, memberCount, memberDetails, overtook, op, arg,
                   chain, count, minipoolCount, addresses, versions,
                   minipoolDetails, details, i, wg, wgErr, Multicaller, issued>>
    /\ UNCHANGED <<locks, lookup>>

\* A call that passes the challenged index as the proposal and the proposal
\* as the index
ChallengeCallSwapped(j) ==
    Call("getChallengeState", challengedIndices[j], proposalIds[j], j, "")

\* mc.AddCall(rocketDAOProtocolVerifier, &states[j], "getChallengeState",
\* propID, challengedIndex)
ChallengeCall(j) ==
    Call("getChallengeState", proposalIds[j], challengedIndices[j], j, "")

\* wg.Go of a group that has no limit
LaunchChallenges ==
    /\ pc = "challenges"
    /\ ~LoopDone(count)
    /\ LET max == ChunkMax(i, challengeStateBatchSize, count) IN
       \E built \in BOOLEAN :
         Launch("challenges", max, built,
                [p \in 1..(max - i) |-> ChallengeCall(i + p - 1)])
    /\ i' = i + challengeStateBatchSize
    /\ UNCHANGED <<other, states, executed, memberCount, memberDetails, overtook, op,
                   arg, chain, count, pc, minipoolCount, addresses, versions,
                   minipoolDetails, details, Multicaller, ret>>
    /\ UNCHANGED <<locks, lookup>>

\* The strict execution of a challenge state batch returns
FinishChallenges ==
    /\ pc = "challenges"
    /\ \E k \in Running : \E transportOk, allSucceed \in BOOLEAN :
         LET err == FlexibleCallErr(TRUE, transportOk, allSucceed) IN
         /\ Finish(k, err)
         /\ states' = DecodeSlice(states, wg[k].calls,
                                  [p \in 1..Len(wg[k].calls) |-> err = NoError])
         /\ executed' = Execute(pc, TRUE, transportOk, allSucceed, err)
    /\ UNCHANGED <<other, memberCount, memberDetails, op, arg, chain, count, pc,
                   minipoolCount, addresses, versions, minipoolDetails, details,
                   i, Multicaller, ret, issued>>
    /\ UNCHANGED <<locks, lookup>>

\* wg.Wait and the return
WaitChallenges ==
    /\ pc = "challenges"
    /\ LoopDone(count)
    /\ WaitReturns
    /\ ret' = IF WaitErr THEN Return(wgErr, "nil") ELSE Return(NoError, "states")
    /\ pc' = "done"
    /\ i' = 0
    /\ wg' = << >>
    /\ wgErr' = NoError
    /\ UNCHANGED <<other, states, executed, memberCount, memberDetails, overtook, op,
                   arg, chain, count, minipoolCount, addresses, versions,
                   minipoolDetails, details, Multicaller, issued>>
    /\ UNCHANGED <<locks, lookup>>

----------------------------------------------------------------------------
(* GetAllOracleDaoMemberDetails, GetOracleDaoMemberDetails *)

\* getOdaoAddresses: the binding of the manager, the count query, the read
\* of mgr.MemberCount and the make
GetMemberCount ==
    /\ pc = "memberCount"
    /\ \E transportOk \in BOOLEAN :
         LET err == Query(transportOk, TRUE) IN
         /\ executed' = Execute(pc, TRUE, transportOk, TRUE, err)
         /\ IF err = NoError
            THEN /\ memberCount' = count
                 /\ addresses' = [j \in 0..(count - 1) |-> 0]
                 /\ pc' = "odaoAddresses"
                 /\ ret' = ret
            ELSE /\ pc' = "done"
                 /\ ret' = Return(Wrap("error getting Oracle DAO addresses", err), "nil")
                 /\ UNCHANGED <<memberCount, addresses>>
    /\ issued' = Append(issued, Batch("memberCount", 0, 1))
    /\ UNCHANGED <<op, arg, chain, count, details, memberDetails, i, wg, wgErr>>
    /\ UNCHANGED <<other, states, minipoolCount, versions, minipoolDetails, Multicaller, overtook>>
    /\ UNCHANGED <<locks, lookup>>

\* An address getter whose call asks for the index after j
OdaoAddressCallNextIndex(j) == Call("getMemberAt", 0, j + 1, j, "")

\* core.AddCall(mc, contracts.RocketDAONodeTrusted, &addresses[j], "getMemberAt", j)
OdaoAddressCall(j) == Call("getMemberAt", 0, j, j, "")

\* getOdaoAddresses: wg.Go.  The loop advances by minipoolAddressBatchSize
\* and ends the chunk at i + oDaoAddressBatchSize.
LaunchOdaoAddresses ==
    /\ pc = "odaoAddresses"
    /\ ~LoopDone(memberCount)
    /\ CanGo
    /\ LET max == ChunkMax(i, oDaoAddressBatchSize, memberCount) IN
       \E built \in BOOLEAN :
         Launch("odaoAddresses", max, built,
                [p \in 1..(max - i) |-> OdaoAddressCall(i + p - 1)])
    /\ i' = i + minipoolAddressBatchSize
    /\ UNCHANGED <<op, arg, chain, count, pc, addresses, details, memberCount,
                   memberDetails, ret>>
    /\ UNCHANGED <<other, states, executed, minipoolCount, versions, minipoolDetails, Multicaller, overtook>>
    /\ UNCHANGED <<locks, lookup>>

\* The strict execution of an address batch returns
FinishOdaoAddresses ==
    /\ pc = "odaoAddresses"
    /\ \E k \in Running : \E transportOk, allSucceed \in BOOLEAN :
         LET err == FlexibleCallErr(TRUE, transportOk, allSucceed) IN
         /\ Finish(k, err)
         /\ addresses' = DecodeSlice(addresses, wg[k].calls,
                                     [p \in 1..Len(wg[k].calls) |-> err = NoError])
         /\ executed' = Execute(pc, TRUE, transportOk, allSucceed, err)
    /\ UNCHANGED <<op, arg, chain, count, pc, details, memberCount, memberDetails,
                   i, ret, issued>>
    /\ UNCHANGED <<other, states, minipoolCount, versions, minipoolDetails, Multicaller>>
    /\ UNCHANGED <<locks, lookup>>

\* getOdaoAddresses: wg.Wait, and the caller's error check
WaitOdaoAddresses ==
    /\ pc = "odaoAddresses"
    /\ LoopDone(memberCount)
    /\ WaitReturns
    /\ IF WaitErr
       THEN /\ pc' = "done"
            /\ ret' = Return(Wrap("error getting Oracle DAO addresses", wgErr), "nil")
            /\ UNCHANGED memberDetails
       ELSE /\ pc' = "odaoDetails"
            /\ memberDetails' = [j \in DOMAIN addresses |-> OracleDaoMemberDetails]
            /\ ret' = ret
    /\ i' = 0
    /\ wg' = << >>
    /\ wgErr' = NoError
    /\ UNCHANGED <<op, arg, chain, count, addresses, details, memberCount, issued>>
    /\ UNCHANGED <<other, states, executed, minipoolCount, versions, minipoolDetails, Multicaller, overtook>>
    /\ UNCHANGED <<locks, lookup>>

\* The eight getters of a member, in the order they are added
MemberCalls ==
    << <<"Exists", "getMemberIsValid">>,
       <<"ID", "getMemberID">>,
       <<"Url", "getMemberUrl">>,
       <<"joinedTimeRaw", "getMemberJoinedTime">>,
       <<"lastProposalTimeRaw", "getMemberLastProposalTime">>,
       <<"RPLBondAmount", "getMemberRPLBondAmount">>,
       <<"ReplacementAddress", "getMemberReplacedAddress">>,
       <<"IsChallenged", "getMemberIsChallenged">> >>

\* addOracleDaoMemberDetailsCalls(d): the calls it adds to the multicaller
addOracleDaoMemberDetailsCalls(d, j) == AddCalls(MemberCalls, d["Address"], j)

\* fixupOracleDaoMemberDetails(d)
fixupOracleDaoMemberDetails(d) ==
    [d EXCEPT !["JoinedTime"] = convertToTime(d["joinedTimeRaw"]),
              !["LastProposalTime"] = convertToTime(d["lastProposalTimeRaw"])]

\* getOracleDaoDetails: wg.Go.  The chunks are of minipoolBatchSize.
LaunchOdaoDetails ==
    /\ pc = "odaoDetails"
    /\ ~LoopDone(Len0(addresses))
    /\ CanGo
    /\ LET max == ChunkMax(i, minipoolBatchSize, Len0(addresses)) IN
       \E built \in BOOLEAN :
         /\ Launch("odaoDetails", max, built,
                   [j \in i..(max - 1) |->
                       addOracleDaoMemberDetailsCalls(
                           [memberDetails[j] EXCEPT !["Address"] = addresses[j]], j)])
         /\ memberDetails' =
              IF built
              THEN [j \in DOMAIN memberDetails |->
                      IF j \in i..(max - 1)
                      THEN [memberDetails[j] EXCEPT !["Address"] = addresses[j]]
                      ELSE memberDetails[j]]
              ELSE memberDetails
    /\ i' = i + minipoolBatchSize
    /\ UNCHANGED <<op, arg, chain, count, pc, addresses, details, memberCount, ret>>
    /\ UNCHANGED <<other, states, executed, minipoolCount, versions, minipoolDetails, Multicaller, overtook>>
    /\ UNCHANGED <<locks, lookup>>

\* The strict execution of a details batch returns
FinishOdaoDetails ==
    /\ pc = "odaoDetails"
    /\ \E k \in Running : \E transportOk, allSucceed \in BOOLEAN :
         LET err == FlexibleCallErr(TRUE, transportOk, allSucceed) IN
         /\ Finish(k, err)
         /\ memberDetails' =
              IF err = NoError
              THEN [j \in DOMAIN memberDetails |->
                      IF j \in DOMAIN wg[k].calls
                      THEN Decode(memberDetails[j], wg[k].calls[j])
                      ELSE memberDetails[j]]
              ELSE memberDetails
         /\ executed' = Execute(pc, TRUE, transportOk, allSucceed, err)
    /\ UNCHANGED <<op, arg, chain, count, pc, addresses, details, memberCount,
                   i, ret, issued>>
    /\ UNCHANGED <<other, states, minipoolCount, versions, minipoolDetails, Multicaller>>
    /\ UNCHANGED <<locks, lookup>>

\* getOracleDaoDetails: wg.Wait, the postprocessing loop and the return
WaitOdaoDetails ==
    /\ pc = "odaoDetails"
    /\ LoopDone(Len0(addresses))
    /\ WaitReturns
    /\ IF WaitErr
       THEN /\ ret' = Return(Wrap("error getting Oracle DAO details", wgErr), "nil")
            /\ UNCHANGED memberDetails
       ELSE /\ memberDetails' =
                 [j \in DOMAIN memberDetails |->
                     fixupOracleDaoMemberDetails(memberDetails[j])]
            /\ ret' = Return(NoError, "memberDetails")
    /\ pc' = "done"
    /\ i' = 0
    /\ wg' = << >>
    /\ wgErr' = NoError
    /\ UNCHANGED <<op, arg, chain, count, addresses, details, memberCount, issued>>
    /\ UNCHANGED <<other, states, executed, minipoolCount, versions, minipoolDetails, Multicaller, overtook>>
    /\ UNCHANGED <<locks, lookup>>

\* GetOracleDaoMemberDetails: a multicaller of its own, the calls, the
\* strict execution, the fixup and the return
GetOracleDaoMemberDetails ==
    /\ pc = "odaoCall"
    /\ \E built, transportOk, allSucceed \in BOOLEAN :
         LET d == [details EXCEPT !["Address"] = arg]
             calls == addOracleDaoMemberDetailsCalls(d, 0)
             err == FlexibleCallErr(TRUE, transportOk, allSucceed)
         IN
         IF ~built
         THEN /\ details' = d
              /\ ret' = Return(<<"error creating multicaller", "NewMultiCaller">>, "zero")
              /\ issued' = issued
              /\ executed' = executed
         ELSE /\ issued' = Append(issued, Batch("odaoCall", 0, 1))
              /\ executed' = Execute(pc, TRUE, transportOk, allSucceed, err)
              /\ IF err = NoError
                 THEN /\ details' = fixupOracleDaoMemberDetails(Decode(d, calls))
                      /\ ret' = Return(NoError, "details")
                 ELSE /\ details' = d
                      /\ ret' = Return(Wrap("error executing multicall", err), "zero")
    /\ pc' = "done"
    /\ UNCHANGED <<op, arg, chain, count, addresses, memberCount, memberDetails,
                   i, wg, wgErr>>
    /\ UNCHANGED <<other, states, minipoolCount, versions, minipoolDetails, Multicaller, overtook>>
    /\ UNCHANGED <<locks, lookup>>

----------------------------------------------------------------------------

Next ==
    \/ GetMinipoolCount
    \/ WaitAddresses
    \/ LaunchVersions
    \/ FinishVersions
    \/ WaitVersions
    \/ GetEthBalances
    \/ LaunchR1
    \/ FinishR1
    \/ WaitR1
    \/ LaunchR2
    \/ FinishR2
    \/ WaitR2
    \/ Postprocess
    \/ GetContractVersion
    \/ FlexibleCall
    \/ OtherGetContractVersion
    \/ OtherFlexibleCall
    \/ LaunchShares
    \/ FinishShares
    \/ WaitShares
    \/ GetterLock
    \/ GetterGetContract
    \/ GetterUnlock
    \/ GetMinipoolBytecode
    \/ GetVerifier
    \/ LaunchChallenges
    \/ FinishChallenges
    \/ WaitChallenges
    \/ GetMemberCount
    \/ LaunchOdaoAddresses
    \/ FinishOdaoAddresses
    \/ WaitOdaoAddresses
    \/ LaunchOdaoDetails
    \/ FinishOdaoDetails
    \/ WaitOdaoDetails
    \/ GetOracleDaoMemberDetails

Spec == Init /\ [][Next]_vars

\* The return of a round trip to a worker
RoundTrips ==
    \/ FinishVersions
    \/ FinishR1
    \/ FinishR2
    \/ FinishShares
    \/ FinishChallenges
    \/ FinishOdaoAddresses
    \/ FinishOdaoDetails

\* The steps of the goroutine that runs an operation, those of the second
\* invocation and those of the goroutines inside a contract getter
CallerSteps ==
    \/ GetMinipoolCount \/ WaitAddresses \/ LaunchVersions \/ WaitVersions
    \/ GetEthBalances \/ LaunchR1 \/ WaitR1 \/ LaunchR2 \/ WaitR2 \/ Postprocess
    \/ GetContractVersion \/ FlexibleCall
    \/ LaunchShares \/ WaitShares
    \/ GetVerifier \/ LaunchChallenges \/ WaitChallenges
    \/ GetterLock \/ GetterGetContract \/ GetterUnlock \/ GetMinipoolBytecode
    \/ GetMemberCount \/ LaunchOdaoAddresses \/ WaitOdaoAddresses
    \/ LaunchOdaoDetails \/ WaitOdaoDetails \/ GetOracleDaoMemberDetails

\* The operations where every round trip returns and a goroutine that can
\* take a step takes one
LiveSpec == Spec /\ WF_vars(RoundTrips) /\ WF_vars(CallerSteps)

----------------------------------------------------------------------------
(* Properties *)

\* The operations that enumerate a collection, and those that run the
\* version resolution and getBulkMinipoolDetails
Enumerating == op \in {"all", "node"}

Bulk == op \in {"all", "node", "helpers"}

Succeeded == pc = "done" /\ ret.err = NoError

Failed(k) == k \in DOMAIN wg /\ wg[k].status = "failed"

\* The address the enumeration call of the running operation answers for j
EnumeratedAt(j) ==
    IF op = "node" THEN getNodeMinipoolAt(arg, j) ELSE getMinipoolAt(j)

\* The batches sent in a phase, as positions of the history
IssuedIn(phase) == {p \in 1..Len(issued) : issued[p].phase = phase}

\* The chunks of n items in batches of size
Chunks(n, size) ==
    {<<lo, IF lo + size > n THEN n ELSE lo + size>> :
        lo \in {x \in 0..(n - 1) : x % size = 0}}

CeilDiv(n, size) == (n + size - 1) \div size

PhaseSize(phase) ==
    CASE phase = "addresses" -> minipoolAddressBatchSize
      [] phase = "odaoAddresses" -> oDaoAddressBatchSize
      [] phase = "versions" -> minipoolVersionBatchSize
      [] OTHER -> minipoolBatchSize

BatchedPhases == {"addresses", "versions", "r1", "r2"}

\* C1 (as claimed): a bulk snapshot of a collection of count entities that
\* succeeds returns exactly count records, and record j carries the address
\* the enumeration call answers for index j.
C1_IndexAligned ==
    (Enumerating /\ Succeeded) =>
        /\ ret.value = "minipoolDetails"
        /\ DOMAIN minipoolDetails = 0..(count - 1)
        /\ \A j \in 0..(count - 1) :
             minipoolDetails[j]["MinipoolAddress"] = EnumeratedAt(j)

\* C2: once a round 1 worker has failed, the bulk snapshot can only stay in
\* round 1 or return an error with a nil collection.
C2_Round1FailureReturnsNil ==
    [][(pc = "r1" /\ \E k \in DOMAIN wg : Failed(k))
         => \/ pc' = "r1"
            \/ pc' = "done" /\ ret'.err # NoError /\ ret'.value = "nil"]_vars

C2_Witness ==
    /\ pc = "done"
    /\ ret.value = "nil"
    /\ ret.err # NoError /\ ret.err[1] = "error getting minipool details r1"
    /\ Cardinality(IssuedIn("r1")) = 3

\* C3: after bulk version resolution every entity whose probe failed has
\* version 1, also in the records returned, and a failed probe is never
\* the cause of a version resolution error.
C3_FailedProbeIsVersion1 ==
    /\ (pc \in {"balances", "r1", "r2", "fixup"} \/ (Bulk /\ Succeeded)) =>
          \A j \in DOMAIN addresses :
              ~KindOf(addresses[j]).Success => versions[j] = 1
    /\ (Bulk /\ Succeeded) =>
          \A j \in DOMAIN addresses :
              ~KindOf(addresses[j]).Success => minipoolDetails[j]["Version"] = 1
    /\ pc = "versions" => \A p \in 1..Len(wgErr) : wgErr[p] # "call failed"

C3_Witness ==
    /\ Bulk /\ Succeeded
    /\ \E j \in DOMAIN addresses :
         ~KindOf(addresses[j]).Success /\ minipoolDetails[j]["Version"] = 1

\* C4 (as claimed): GetNativeMinipoolDetails treats a version probe that
\* fails, with the round trip itself succeeding, as version 1 and goes on
\* to field population instead of returning an error.
C4_SingleFailedProbeIsVersion1 ==
    (/\ op = "single"
     /\ pc \in {"call", "done"}
     /\ ~KindOf(arg).Success
     /\ \A p \in 1..Len(ret.err) : ret.err[p] # "transport")
    => /\ details["Version"] = 1
       /\ ret.err # NoError => ret.err[1] # "error getting minipool version"

\* C5 (as claimed): in round 2 every entity whose distributable balance is
\* <= 0 has both shares set to zero and no share call in the batch.
C5_NonPositiveSharesZeroNoCall ==
    pc = "r2" =>
      \A k \in Running : \A j \in DOMAIN wg[k].calls :
         LET d == minipoolDetails[j] IN
         (/\ d["NodeRefundBalance"] # Nil
          /\ Val(d["Balance"]) - Val(d["NodeRefundBalance"]) <= 0)
         => /\ d["NodeShareOfBalance"] = zero
            /\ d["UserShareOfBalance"] = zero
            /\ wg[k].calls[j] = << >>

C7_ReturnedRecordsComplete ==
    Succeeded =>
      \A d \in (IF op = "single" THEN {details}
                ELSE {minipoolDetails[j] : j \in DOMAIN minipoolDetails}) :
         /\ d["NodeRefundBalance"] # Nil
         /\ d["Balance"] # Nil
         /\ d["DistributableBalance"] # Nil
         /\ d["NodeShareOfBalance"] # Nil
         /\ d["UserShareOfBalance"] # Nil
         /\ d["Status"] = d["StatusRaw"]
         /\ d["DepositType"] = d["DepositTypeRaw"]

\* C8 (as claimed): a bulk snapshot holding an entity for whose version no
\* binding can be created returns an error and no records.
C8_EmissionFailureIsError ==
    (/\ Bulk
     /\ pc = "done"
     /\ \E j \in DOMAIN versions : ~NewMinipoolFromVersion(versions[j])
     /\ \A p \in 1..Len(ret.err) : ret.err[p] \notin {"transport", "call failed",
                                                       "NewMultiCaller"})
    => ret.err # NoError /\ ret.value = "nil"

\* C9 (as claimed): in a round 1 batch an entity of version < 3 has no call
\* for a v3+ field and holds its default, an entity of version >= 3 has
\* exactly one call for each; after round 1 the v3+ fields of every entity
\* of version < 3 hold their defaults.
C9_AtlasFieldsByVersion ==
    /\ pc = "r1" =>
         \A k \in Running : \A j \in DOMAIN wg[k].calls :
            LET cs == wg[k].calls[j]
                d == minipoolDetails[j]
            IN  \A f \in AtlasFields :
                  IF d["Version"] < 3
                  THEN /\ \A p \in 1..Len(cs) : cs[p].out # f
                       /\ d[f] = IF f \in BoolFields THEN FALSE ELSE Big(0)
                  ELSE Cardinality({p \in 1..Len(cs) : cs[p].out = f}) = 1
    /\ (pc \in {"r2", "fixup"} \/ (Bulk /\ Succeeded)) =>
         \A j \in DOMAIN minipoolDetails : \A f \in AtlasFields :
            minipoolDetails[j]["Version"] < 3
            => minipoolDetails[j][f] = IF f \in BoolFields THEN FALSE ELSE Big(0)

\* The batches a phase sent are the chunks of n items of the given size
PhasePartition(phase, n, size) ==
    /\ Cardinality(IssuedIn(phase)) = CeilDiv(n, size)
    /\ {<<issued[p].lo, issued[p].hi>> : p \in IssuedIn(phase)} = Chunks(n, size)

SequentialRecord(j) ==
    LET a == addresses[j]
        v == ResolvedVersion(a)
        d0 == [NativeMinipoolDetails EXCEPT !["Balance"] = Big(KindOf(a).balance)]
        r1 == addMinipoolDetailsCalls([d0 EXCEPT !["MinipoolAddress"] = a,
                                                 !["Version"] = v], j)
        d1 == Decode(r1.details, r1.calls)
        r2 == addMinipoolShareCalls([d1 EXCEPT !["Version"] = v], j)
        d2 == Decode(r2.details, r2.calls)
    IN  fixupMinipoolDetails(d2)

\* C11: the records a bulk snapshot returns are those one worker running
\* alone computes from the remote state at the queried block, whatever the
\* order in which the workers of each phase were launched and returned.
C11_OrderIndependent ==
    (Bulk /\ Succeeded) =>
        minipoolDetails = [j \in DOMAIN addresses |-> SequentialRecord(j)]

\* A snapshot returned after a worker overtook the worker of an earlier chunk
C11_Witness ==
    /\ Bulk /\ Succeeded
    /\ overtook
    /\ Len0(addresses) = 250

\* The phases whose batches are sent by the workers of an errgroup
GroupPhases == BatchedPhases \cup {"odaoAddresses", "odaoDetails"}

\* C12: in every batched phase of the state operations (enumeration,
\* version resolution, rounds 1 and 2, complete shares, member enumeration
\* and details) the batches in flight, one per running worker, are never
\* more than threadLimit.
C12_InFlightWithinLimit ==
    /\ pc # "challenges" => Cardinality(Running) <= threadLimit
    /\ Running # {} => pc \in GroupPhases \cup {"shares", "challenges"}

\* threadLimit batches are in flight and the loop has a chunk left to launch
C12_Witness ==
    /\ pc \in {"r1", "r2", "odaoDetails"}
    /\ Cardinality(Running) = threadLimit
    /\ ~LoopDone(Len0(addresses))

\* The indices of the chunk whose worker is k
OwnRange(k) == k..(ChunkMax(k, PhaseSize(pc), Len0(addresses)) - 1)

\* C13: within a phase every step is the step of at most one worker, and
\* an element of addresses, versions, the record collection or the member
\* collection that the step changes lies in that worker's chunk [i, max);
\* the chunks of two workers share no index.
C13_WritesOwnRange ==
    [][(pc \in GroupPhases /\ pc' = pc) =>
          LET stepped == {k \in DOMAIN wg' : k \notin DOMAIN wg \/ wg'[k] # wg[k]}
              written ==
                  {j \in DOMAIN addresses : addresses'[j] # addresses[j]}
                  \cup {j \in DOMAIN versions : versions'[j] # versions[j]}
                  \cup {j \in DOMAIN minipoolDetails :
                           minipoolDetails'[j] # minipoolDetails[j]}
                  \cup {j \in DOMAIN memberDetails :
                           memberDetails'[j] # memberDetails[j]}
          IN  /\ Cardinality(stepped) <= 1
              /\ \A j \in written : \E k \in stepped : j \in OwnRange(k)
              /\ \A k1, k2 \in DOMAIN wg' :
                    k1 # k2 => OwnRange(k1) \cap OwnRange(k2) = {}]_vars

\* The worker of the second version chunk has written the fallback version
\* of a failed probe while the worker of the first chunk is running
C13_Witness ==
    /\ pc = "versions"
    /\ 0 \in Running
    /\ \E k \in DOMAIN wg :
         /\ k > 0
         /\ wg[k].status = "done"
         /\ \E j \in OwnRange(k) :
              ~KindOf(addresses[j]).Success /\ versions[j] = 1 /\ versions[0] = 0

\* The steps of a bulk snapshot in the order of the code
PhaseOrder == <<"count", "addresses", "versions", "balances", "r1", "r2", "fixup", "done">>

PhaseIndex(p) == CHOOSE x \in 1..Len(PhaseOrder) : PhaseOrder[x] = p

\* A worker was launched for every chunk of the address list and every
\* worker's batch has completed without an error
AllChunksSucceeded ==
    /\ DOMAIN wg = {c[1] : c \in Chunks(Len0(addresses), minipoolBatchSize)}
    /\ \A k \in DOMAIN wg : wg[k].status = "done"
    /\ wgErr = NoError

\* C15: in a bulk snapshot the steps follow one another in the order
\* enumerate, resolve versions, balances, round 1, round 2, fixup, return
\* (an error goes straight to the return); round 2 starts only when every
\* round 1 chunk has completed successfully, and a round 2 batch is built
\* and DistributableBalance computed from NodeRefundBalance only in round
\* 2, when every record of a supported version holds its round 1 output;
\* the fixup starts only when every round 2 chunk has completed
\* successfully.
C15_PhaseOrder ==
    [][Bulk =>
        /\ pc' # pc =>
              \/ PhaseIndex(pc') = PhaseIndex(pc) + 1
              \/ pc' = "done" /\ ret'.err # NoError
        /\ (pc = "r1" /\ pc' = "r2") => AllChunksSucceeded
        /\ (pc = "r2" /\ pc' = "fixup") => AllChunksSucceeded
        /\ pc' = "fixup" => pc \in {"r2", "fixup"}
        /\ IssuedIn("r2") # {} => IssuedIn("r1") # {}
        /\ (\/ Len(issued') > Len(issued) /\ issued'[Len(issued')].phase = "r2"
            \/ \E j \in DOMAIN minipoolDetails \cap DOMAIN minipoolDetails' :
                  minipoolDetails'[j]["DistributableBalance"]
                      # minipoolDetails[j]["DistributableBalance"])
              => /\ pc = "r2"
                 /\ \A j \in DOMAIN minipoolDetails :
                      NewMinipoolFromVersion(versions[j])
                          => minipoolDetails[j]["NodeRefundBalance"] # Nil]_vars

\* A snapshot of three chunks returned its records: both rounds and the
\* fixup have run
C15_Witness ==
    /\ Bulk /\ Succeeded
    /\ Len0(addresses) > 2 * minipoolBatchSize
    /\ Cardinality(IssuedIn("r1")) = 3
    /\ Cardinality(IssuedIn("r2")) = 3
    /\ \A j \in DOMAIN minipoolDetails :
         minipoolDetails[j]["NodeShareOfBalance"] # Nil

C17_LenientOnlyForVersions ==
    \A e \in executed :
        /\ e.requireSuccess = (e.phase # "versions")
        /\ (e.phase # "versions" /\ e.failedCall) => e.failed

\* A version batch with a failed call returned no error, and a round 1
\* batch with a failed call returned one
C17_Witness ==
    /\ \E e \in executed : e.phase = "versions" /\ e.failedCall /\ ~e.failed
    /\ \E e \in executed : e.phase = "r1" /\ e.failedCall /\ e.failed

\* The worker of chunk k sent its version batch and the execution itself
\* returned an error
VersionBatchFailed(k) ==
    /\ pc = "versions"
    /\ Failed(k)
    /\ \E p \in IssuedIn("versions") : issued[p].lo = k

\* C18: when the execution of a version batch itself returns an error,
\* version resolution ends with the error "error getting minipool versions"
\* and a nil result, and no later step of the snapshot runs; version
\* resolution hands on a version list only when no version batch failed.
C18_VersionBatchErrorAborts ==
    [][(pc = "versions" /\ pc' # pc) =>
          IF \E k \in DOMAIN wg : VersionBatchFailed(k)
          THEN /\ pc' = "done"
               /\ ret'.value = "nil"
               /\ Len(ret'.err) > 1
               /\ ret'.err[1] = "error getting minipool versions"
          ELSE ret'.err # NoError => \E k \in DOMAIN wg : Failed(k)]_vars

\* Version resolution of two chunks ended with the error of a batch whose
\* round trip failed
C18_Witness ==
    /\ op = "getVersions" /\ pc = "done"
    /\ Cardinality(IssuedIn("versions")) = 2
    /\ ret.value = "nil"
    /\ ret.err = <<"error getting minipool versions", "error executing multicall",
                   "transport">>

\* The steps of address enumeration and those after it
EnumerationSteps == {"count", "addresses", "memberCount", "odaoAddresses"}

\* The count query or an enumeration batch of the operation returned an
\* error
EnumerationFailed ==
    \E e \in executed : e.phase \in EnumerationSteps /\ e.failed

\* C19: once the count query or an enumeration batch has failed, the
\* operation is in enumeration or has returned; it has sent no read of a
\* later step, has made no record, and returns an error and a nil
\* collection.
C19_EnumerationFailureAborts ==
    (op \in {"all", "node", "odaoAll"} /\ EnumerationFailed) =>
        /\ pc \in EnumerationSteps \cup {"done"}
        /\ \A p \in 1..Len(issued) : issued[p].phase \in EnumerationSteps
        /\ \A e \in executed : e.phase \in EnumerationSteps
        /\ minipoolDetails = << >> /\ memberDetails = << >>
        /\ pc = "done" => ret.err # NoError /\ ret.value = "nil"

\* The enumeration batch of 201 members failed and the operation returned
C19_Witness ==
    /\ op = "odaoAll" /\ pc = "done" /\ count = 201
    /\ \E e \in executed : e.phase = "odaoAddresses" /\ e.failed
    /\ \E e \in executed : e.phase = "memberCount" /\ ~e.failed
    /\ ret.value = "nil"
    /\ ret.err[1] = "error getting Oracle DAO addresses"

\* C20: when GetAllOracleDaoMemberDetails succeeds on a collection of
\* count members it returns count records; record j holds the address
\* getMemberAt(j) answers, and its JoinedTime and LastProposalTime are the
\* times of the raw values the contract holds for that address.
C20_MemberRecordsIndexAligned ==
    (op = "odaoAll" /\ Succeeded) =>
        /\ ret.value = "memberDetails"
        /\ DOMAIN memberDetails = 0..(count - 1)
        /\ \A j \in DOMAIN memberDetails :
              LET a == getMemberAt(j) IN
              /\ memberDetails[j]["Address"] = a
              /\ memberDetails[j]["JoinedTime"]
                   = convertToTime(RemoteValue("getMemberJoinedTime", a, 0))
              /\ memberDetails[j]["LastProposalTime"]
                   = convertToTime(RemoteValue("getMemberLastProposalTime", a, 0))

\* The records of 201 members, fetched in three detail chunks, were returned
C20_Witness ==
    /\ op = "odaoAll" /\ Succeeded
    /\ count = 201
    /\ Cardinality(IssuedIn("odaoDetails")) = 3
    /\ memberDetails[200]["Address"] = getMemberAt(200)

\* C14 (as claimed): the handle a snapshot operation executes its batch on
\* holds the descriptors of that one invocation only; in particular, when
\* one of two concurrent invocations of GetNativeMinipoolDetails executes
\* its batch, the batch holds no descriptor bound to the record of the
\* other invocation.
C14_HandlePerBatch ==
    [][/\ (pc = "call" /\ pc' = "done") =>
            \A p \in 1..Len(Multicaller) : Multicaller[p].slot = 0
       /\ (other = "call" /\ other' = "done") =>
            \A p \in 1..Len(Multicaller) : Multicaller[p].slot = 1]_vars


\* A record whose balance and round 1 outputs were changed
Perturbed(d) ==
    [f \in DOMAIN d |->
        IF f \in {"Balance", "NodeRefundBalance", "NodeDepositBalance"}
        THEN (IF d[f] = Nil THEN Big(0) ELSE Big(Val(d[f]) + 1))
        ELSE IF f \in {"StatusRaw", "NodeAddress"} THEN d[f] + 1
        ELSE d[f]]

\* The record of index j holding nothing but its own inputs to round 2:
\* its address, the version resolved for it, its balance and its refund
OwnInputs(j) ==
    [NativeMinipoolDetails EXCEPT
        !["MinipoolAddress"] = addresses[j],
        !["Version"] = versions[j],
        !["Balance"] = Big(KindOf(addresses[j]).balance),
        !["NodeRefundBalance"] =
            IF NewMinipoolFromVersion(versions[j])
            THEN RemoteValue("getNodeRefundBalance", addresses[j], 0)
            ELSE Nil]

\* C21: in round 2 the calls and the record the loop body makes for index
\* j are the same when the balance and the round 1 outputs of a
\* neighbouring record are changed; the calls a round 2 worker sent for j
\* are those made from j's own address, version, balance and refund alone,
\* and so is the DistributableBalance of record j.
C21_Round2OwnInputsOnly ==
    pc = "r2" =>
        /\ \A j \in DOMAIN minipoolDetails :
             \A n \in {j - 1, j + 1} \cap DOMAIN minipoolDetails :
                ShareRound([minipoolDetails EXCEPT ![n] = Perturbed(@)], versions, j)
                    = ShareRound(minipoolDetails, versions, j)
        /\ \A k \in Running : \A j \in DOMAIN wg[k].calls :
             /\ wg[k].calls[j] = addMinipoolShareCalls(OwnInputs(j), j).calls
             /\ minipoolDetails[j]["DistributableBalance"]
                  = addMinipoolShareCalls(OwnInputs(j), j).details["DistributableBalance"]

\* A round 2 worker has sent the calls of two records of supported versions
\* whose balances differ
C21_Witness ==
    /\ pc = "r2"
    /\ Len0(addresses) = 2
    /\ 0 \in Running
    /\ \A j \in {0, 1} : /\ NewMinipoolFromVersion(versions[j])
                         /\ Len(wg[0].calls[j]) = 2
    /\ minipoolDetails[0]["Balance"] # minipoolDetails[1]["Balance"]


\* The steps in which workers run
WorkerPhases == GroupPhases \cup {"shares", "challenges"}

\* The workers that have returned an error
FailedWorkers == {k \in DOMAIN wg : wg[k].status = "failed"}

\* A step of a phase of workers keeps the first error and leaves the phase
\* only when no worker runs
KeepsFirstError ==
    (pc \in WorkerPhases) =>
        /\ (wgErr # NoError) <=> (FailedWorkers # {})
        /\ (pc' = pc /\ wgErr # NoError) => (wgErr' = wgErr)
        /\ (pc' = pc /\ wgErr = NoError /\ wgErr' # NoError) =>
              (\E k \in DOMAIN wg' : /\ wg'[k].status = "failed"
                                     /\ k \notin FailedWorkers)
        /\ (pc' # pc) =>
              /\ Running = {}
              /\ (wgErr # NoError) =>
                    /\ pc' = "done"
                    /\ ret'.value \in {"nil", "none"}
                    /\ \/ ret'.err = wgErr
                       \/ ret'.err = Wrap(ret'.err[1], wgErr)

\* C22: the group holds an error exactly when a worker of the phase has
\* failed; the error it holds is the one of the first worker that failed
\* and the failures after it do not change it; the phase ends only when
\* every worker launched has returned, and the caller then gets that one
\* error (under the message of the phase) and no collection.
C22_FirstErrorOnlyAfterAllFinished == [][KeepsFirstError]_vars

\* Two workers of round 1 have failed with different errors, the first
\* before sending and the second on its round trip, and the group holds
\* the first
C22_Witness ==
    /\ pc = "r1"
    /\ Cardinality(FailedWorkers) >= 2
    /\ wgErr = <<"NewMultiCaller">>
    /\ \E k \in FailedWorkers : \E p \in IssuedIn("r1") : issued[p].lo = k


\* The chunks of the running phase whose batch was sent
IssuedChunks == {issued[p].lo : p \in IssuedIn(pc)}

\* A step sends at most one batch, for a chunk no batch of the phase was
\* sent for; a worker that has returned is left as it returned
NoRetryStep ==
    /\ \/ issued' = issued
       \/ /\ Len(issued') = Len(issued) + 1
          /\ SubSeq(issued', 1, Len(issued)) = issued
          /\ \A p \in 1..Len(issued) :
                ~(/\ issued[p].phase = issued'[Len(issued')].phase
                  /\ issued[p].lo = issued'[Len(issued')].lo)
    /\ (pc \in WorkerPhases /\ pc' = pc) =>
          \A k \in DOMAIN wg : wg[k].status # "running" =>
                /\ k \in DOMAIN wg'
                /\ wg'[k] = wg[k]

\* C23: no batch is sent twice: in every step at most one batch is sent, and
\* it is the batch of a chunk of its phase that none was sent for before; a
\* worker that has returned, failed or not, is never started again in its
\* phase
C23_NoRetries == [][NoRetryStep]_vars

\* A worker of round 1 failed on its round trip, every worker of the round
\* has returned, and one batch was sent for each of the three chunks
C23_Witness ==
    /\ pc = "r1"
    /\ i >= Len0(addresses)
    /\ Running = {}
    /\ \E k \in FailedWorkers : k \in IssuedChunks
    /\ Cardinality(IssuedIn("r1")) = 3
    /\ Cardinality(IssuedChunks) = 3


\* The indices a batch of the phase was sent for
SentFor(phase) ==
    {j \in DOMAIN addresses :
        \E p \in IssuedIn(phase) : issued[p].lo <= j /\ j < issued[p].hi}

\* The record of index j with the address and the version resolved for it
Versioned(j) ==
    [minipoolDetails[j] EXCEPT !["MinipoolAddress"] = addresses[j],
                               !["Version"] = ResolvedVersion(addresses[j])]

\* The version of every record a round has worked on, and of every record
\* returned, is the one resolved for its address; the calls in flight for an
\* index are those its resolved version selects
VersionUsed ==
    (op = "helpers" /\ (pc = "balances" \/ IssuedIn("balances") # {})) =>
        /\ \A j \in DOMAIN versions : versions[j] = ResolvedVersion(addresses[j])
        /\ \A j \in SentFor("r1") : minipoolDetails[j]["Version"] = versions[j]
        /\ pc = "r1" =>
              \A k \in Running : \A j \in DOMAIN wg[k].calls :
                 wg[k].calls[j] = addMinipoolDetailsCalls(Versioned(j), j).calls
        /\ pc = "r2" =>
              \A k \in Running : \A j \in DOMAIN wg[k].calls :
                 wg[k].calls[j] = addMinipoolShareCalls(Versioned(j), j).calls
        /\ Succeeded =>
              \A j \in DOMAIN minipoolDetails :
                 minipoolDetails[j]["Version"] = ResolvedVersion(addresses[j])

\* C24: once the versions are resolved, the version of address j is the
\* version round 1 chooses j's calls by, the version round 2 builds j's
\* calls with, and the Version of the record returned for j.
C24_VersionImmutable == VersionUsed

\* Round 2 of a list whose even and odd addresses resolved to different
\* versions, one below 3 and one not, has a worker running
C24_Witness ==
    /\ op = "helpers"
    /\ pc = "r2"
    /\ Running # {}
    /\ Len0(addresses) >= 2
    /\ versions[0] < 3
    /\ versions[1] >= 3
    /\ 0 \in SentFor("r2")
    /\ 1 \in SentFor("r2")


\* C25 (as claimed): CalculateCompleteMinipoolShares changes no field of the
\* records it is given, which a snapshot returned to the caller before.
C25_ReturnedRecordsUnchanged ==
    [][(op = "shares") => (minipoolDetails' = minipoolDetails)]_vars


\* The record d with every field outside keep set to a value that no
\* default and no computed balance takes
Marked(d, keep) ==
    [f \in DOMAIN d |->
        IF f \in keep THEN d[f]
        ELSE IF f \in BoolFields THEN TRUE
        ELSE IF f \in BigFields THEN Big(1000)
        ELSE 99]

\* The fields a call builder assigned itself
WrittenBy(before, after) == {f \in DOMAIN before : after[f] # before[f]}

\* The output fields of a list of calls
Outs(calls) == {calls[p].out : p \in 1..Len(calls)}

\* No two calls of the list have the same output field
WriteOnce(calls) == Cardinality(Outs(calls)) = Len(calls)

ShareInputs == {"MinipoolAddress", "Version", "Balance", "NodeRefundBalance"}

\* What the two rounds do for index j, from the record round 1 left
BothRounds(j) ==
    LET m1 == Marked(minipoolDetails[j], {"MinipoolAddress", "Version"})
        m2 == Marked(minipoolDetails[j], ShareInputs)
        p1 == addMinipoolDetailsCalls(m1, j)
        p2 == addMinipoolShareCalls(m2, j)
    IN  [calls |-> p1.calls \o p2.calls,
         direct |-> WrittenBy(m1, p1.details) \cup WrittenBy(m2, p2.details),
         r2 |-> p2.calls]

\* What CalculateCompleteMinipoolShares does for index j
CompleteShares(j) ==
    LET m == Marked(minipoolDetails[j], ShareInputs)
        p == CompleteShareCalls(m, j)
    IN  [calls |-> p.calls, direct |-> WrittenBy(m, p.details)]

\* C26: for every record, no field is the output of two calls of round 1
\* and round 2 together, and no field a round assigns itself (a default of
\* the v3+ fields, a zero share, the distributable balance) is the output
\* of a call; the calls a round 2 worker sent are those round 2 calls.  The
\* same holds of the calls of CalculateCompleteMinipoolShares and of the
\* member calls.
C26_WriteOnceBinding ==
    /\ (op = "helpers" /\ pc = "r2") =>
          \A j \in DOMAIN minipoolDetails :
             LET b == BothRounds(j) IN
             /\ WriteOnce(b.calls)
             /\ b.direct \cap Outs(b.calls) = {}
             /\ \A k \in Running : j \in DOMAIN wg[k].calls => wg[k].calls[j] = b.r2
    /\ (op = "shares" /\ pc = "shares") =>
          \A j \in DOMAIN minipoolDetails :
             LET c == CompleteShares(j) IN
             /\ WriteOnce(c.calls)
             /\ c.direct \cap Outs(c.calls) = {}
    /\ pc = "odaoDetails" =>
          \A k \in Running : \A j \in DOMAIN wg[k].calls :
             WriteOnce(wg[k].calls[j])

\* Round 2 has sent the batch of a list whose first record has a version
\* below 3, so that round 1 set its v3+ fields to their defaults, and a
\* negative distributable balance, so that round 2 set its shares to zero
C26_Witness ==
    /\ op = "helpers"
    /\ pc = "r2"
    /\ 0 \in Running
    /\ Len0(addresses) = 2
    /\ minipoolDetails[0]["Version"] < 3
    /\ "ReduceBondTime" \in BothRounds(0).direct
    /\ "NodeShareOfBalance" \in BothRounds(0).direct
    /\ Len(BothRounds(0).r2) = 0
    /\ Len(BothRounds(1).r2) = 2


MinipoolDerived == {"Status", "DepositType"}
MemberDerived == {"JoinedTime", "LastProposalTime"}

\* The postprocessing loop of getBulkMinipoolDetails and that of
\* getOracleDaoDetails send nothing and change the derived fields only
FixupStep ==
    /\ (pc = "fixup" /\ pc' = "done") =>
          /\ issued' = issued
          /\ executed' = executed
          /\ \A j \in DOMAIN minipoolDetails :
                /\ WrittenBy(minipoolDetails[j], minipoolDetails'[j]) \subseteq MinipoolDerived
                /\ minipoolDetails'[j]["Status"] = minipoolDetails[j]["StatusRaw"]
                /\ minipoolDetails'[j]["DepositType"] = minipoolDetails[j]["DepositTypeRaw"]
    /\ (pc = "odaoDetails" /\ pc' = "done") =>
          /\ issued' = issued
          /\ executed' = executed
          /\ \A j \in DOMAIN memberDetails :
                /\ WrittenBy(memberDetails[j], memberDetails'[j]) \subseteq MemberDerived
                /\ ret'.err = NoError =>
                      /\ memberDetails'[j]["JoinedTime"] =
                            convertToTime(memberDetails[j]["joinedTimeRaw"])
                      /\ memberDetails'[j]["LastProposalTime"] =
                            convertToTime(memberDetails[j]["lastProposalTimeRaw"])
    /\ (op = "single" /\ pc = "call") =>
          WrittenBy(details, fixupMinipoolDetails(details)) \subseteq MinipoolDerived
    /\ (op = "odaoSingle" /\ pc' = "done" /\ ret'.err = NoError) =>
          /\ details'["JoinedTime"] = convertToTime(details'["joinedTimeRaw"])
          /\ details'["LastProposalTime"] = convertToTime(details'["lastProposalTimeRaw"])

\* C27: the fixup steps send no batch, and the only fields in which a record
\* differs after its fixup are Status and DepositType, set from StatusRaw
\* and DepositTypeRaw, for a minipool and JoinedTime and LastProposalTime,
\* set from the raw times, for a member.
C27_FixupFrame == [][FixupStep]_vars

\* A bulk snapshot of two minipools returned records whose status and
\* deposit type are those of their nonzero raw values
C27_Witness ==
    /\ op = "helpers" /\ Succeeded
    /\ Len0(minipoolDetails) = 2
    /\ \A j \in DOMAIN minipoolDetails :
          /\ minipoolDetails[j]["StatusRaw"] # 0
          /\ minipoolDetails[j]["Status"] = minipoolDetails[j]["StatusRaw"]
          /\ minipoolDetails[j]["DepositTypeRaw"] # 0
          /\ minipoolDetails[j]["DepositType"] = minipoolDetails[j]["DepositTypeRaw"]


\* The operations that run their batches on workers
WorkerOps == {"all", "node", "helpers", "getVersions", "shares", "odaoAll", "challenges"}

\* C28: when every round trip returns, every operation that runs its
\* batches on workers returns, with a collection or with an error; no
\* state is reached in which neither the loop, nor a worker, nor the wait
\* can go on.
C28_EventuallyReturns ==
    (op \in WorkerOps) => <>(pc = "done")

\* Round 1 over 250 addresses: the workers of the first two chunks were
\* running, so that the loop waited for a slot to launch the third, and
\* the second has returned the error of its round trip while the first is
\* still running
C28_Witness ==
    /\ pc = "r1"
    /\ ~LoopDone(Len0(addresses))
    /\ i = threadLimit * minipoolBatchSize
    /\ Running = {0}
    /\ FailedWorkers = {minipoolBatchSize}
    /\ wgErr # NoError
    /\ wgErr[1] = "error executing multicall"


\* C29 (as claimed): the batches of GetMultiChallengeStatesFast in flight,
\* one per running worker, are never more than the limit of the pool,
\* however many pairs are passed.
C29_ChallengesWithinLimit ==
    pc = "challenges" => Cardinality(Running) <= threadLimit


\* The total balance of record j: beacon balance + contract balance - node
\* refund
TotalBalance(j) ==
    Val(beaconBalances[j]) + Val(minipoolDetails[j]["Balance"])
        - Val(minipoolDetails[j]["NodeRefundBalance"])

\* The calls of the list whose output is the field
BoundToField(calls, f) == SelectSeq(calls, LAMBDA c : c.out = f)

\* For the input x of record j, the node and user share fields and the
\* calls in flight: zero in both fields and no call for them when x <= 0,
\* one calculateNodeShare and one calculateUserShare of x otherwise
ShareCase(calls, j, x, nodeField, userField) ==
    LET a == minipoolDetails[j]["MinipoolAddress"] IN
    IF x <= 0
    THEN /\ minipoolDetails[j][nodeField] = Big(0)
         /\ minipoolDetails[j][userField] = Big(0)
         /\ BoundToField(calls, nodeField) = << >>
         /\ BoundToField(calls, userField) = << >>
    ELSE /\ BoundToField(calls, nodeField) =
               << Call("calculateNodeShare", a, x, j, nodeField) >>
         /\ BoundToField(calls, userField) =
               << Call("calculateUserShare", a, x, j, userField) >>

\* C30: for every record of a batch CalculateCompleteMinipoolShares has
\* sent: when the beacon balance is <= 0 the two beacon shares are zero and
\* no call is bound to them, otherwise one node share call and one user
\* share call of the beacon balance are; independently the same holds of
\* the two shares including the beacon balance for the total balance; and
\* the batch holds no other call for the record.
C30_NonPositiveInputsSetZero ==
    (op = "shares" /\ pc = "shares") =>
        \A k \in Running : \A j \in DOMAIN wg[k].calls :
           LET calls == wg[k].calls[j] IN
           /\ ShareCase(calls, j, Val(beaconBalances[j]),
                        "NodeShareOfBeaconBalance", "UserShareOfBeaconBalance")
           /\ ShareCase(calls, j, TotalBalance(j),
                        "NodeShareOfBalanceIncludingBeacon",
                        "UserShareOfBalanceIncludingBeacon")
           /\ Len(calls) = (IF Val(beaconBalances[j]) > 0 THEN 2 ELSE 0)
                           + (IF TotalBalance(j) > 0 THEN 2 ELSE 0)

\* A batch in flight holds a record with beacon balance 0 and a negative
\* total balance, whose four shares are zero and which has no call, and a
\* record with both positive, which has four calls
C30_Witness ==
    /\ op = "shares" /\ pc = "shares"
    /\ \E k \in Running :
          /\ \E j \in DOMAIN wg[k].calls :
                /\ Val(beaconBalances[j]) = 0
                /\ TotalBalance(j) < 0
                /\ Len(wg[k].calls[j]) = 0
                /\ minipoolDetails[j]["NodeShareOfBeaconBalance"] = Big(0)
                /\ minipoolDetails[j]["UserShareOfBalanceIncludingBeacon"] = Big(0)
          /\ \E j \in DOMAIN wg[k].calls :
                Val(beaconBalances[j]) > 0 /\ TotalBalance(j) > 0 /\ Len(wg[k].calls[j]) = 4


ShareOutputs ==
    {"NodeShareOfBeaconBalance", "UserShareOfBeaconBalance",
     "NodeShareOfBalanceIncludingBeacon", "UserShareOfBalanceIncludingBeacon"}

\* C31 (as claimed): when CalculateCompleteMinipoolShares has returned an
\* error, the beacon shares and the shares including the beacon balance of
\* every record it was given are what they were when it was called.
C31_SharesAllOrNothing ==
    (op = "shares" /\ pc = "done" /\ ret.err # NoError) =>
        \A j \in DOMAIN minipoolDetails : \A f \in ShareOutputs :
           minipoolDetails[j][f] = SnapshotRecord(j)[f]


\* The state the verifier holds for the pair at index j
ChallengeStateOf(j) ==
    RemoteValue("getChallengeState", proposalIds[j], challengedIndices[j])

\* C32: GetMultiChallengeStatesFast given lists of different lengths returns
\* an error and no states, and has sent and executed no batch; every batch
\* it sends is for at most challengeStateBatchSize pairs; when it returns
\* without error the lists had the same length n, it returns n states, and
\* states[j] is the state of (proposalIds[j], challengedIndices[j]).
C32_ChallengeStatesIndexAligned ==
    (op = "challenges") =>
        /\ \A p \in IssuedIn("challenges") :
              /\ issued[p].hi - issued[p].lo <= challengeStateBatchSize
              /\ issued[p].hi - issued[p].lo > 0
        /\ \A k \in Running : Len(wg[k].calls) <= challengeStateBatchSize
        /\ (Len0(proposalIds) # Len0(challengedIndices)) =>
              /\ issued = << >>
              /\ executed = {}
              /\ wg = << >>
              /\ pc = "done" => (ret.err # NoError /\ ret.value = "nil")
        /\ Succeeded =>
              /\ Len0(proposalIds) = Len0(challengedIndices)
              /\ ret.value = "states"
              /\ DOMAIN states = 0..(count - 1)
              /\ \A j \in DOMAIN states : states[j] = ChallengeStateOf(j)

\* The states of 1001 pairs, fetched in three batches, were returned; the
\* pairs at indices 3 and 4 are in different states
C32_Witness ==
    /\ op = "challenges" /\ Succeeded
    /\ count = 2 * challengeStateBatchSize + 1
    /\ Cardinality(IssuedIn("challenges")) = 3
    /\ states[3] = ChallengeStateOf(3)
    /\ states[3] # states[4]
    /\ states[count - 1] = ChallengeStateOf(count - 1)


\* The step in which the execution of the version batch of the chunk at k
\* returns
VersionBatchReturns(k) ==
    /\ pc = "versions"
    /\ k \in Running
    /\ wg'[k].status # "running"

\* When the version batch of the chunk [k, max) returns: no version outside
\* the chunk changes; if the round trip succeeded, the version of an entity
\* of the chunk is 1 when its probe failed and the probed version when it
\* succeeded; if it failed, there are no outcomes and no version changes
FallbackStep ==
    \A k \in DOMAIN wg :
       VersionBatchReturns(k) =>
          LET max == ChunkMax(k, minipoolVersionBatchSize, Len0(addresses)) IN
          \A j \in DOMAIN versions :
             IF j < k \/ j >= max \/ wg'[k].status = "failed"
             THEN versions'[j] = versions[j]
             ELSE IF KindOf(addresses[j]).Success
             THEN versions'[j] = KindOf(addresses[j]).version
             ELSE versions'[j] = 1

\* C33: the loop over the outcomes of the version batch of the chunk
\* starting at i writes version 1 to the entity i+j of each failed probe j
\* and to no other entity: the entities of the chunk whose probe succeeded
\* have the probed version, and no version outside [i, max) changes.
C33_FallbackWritesOwnEntity == [][FallbackStep]_vars

\* Both workers of the version phase of 501 addresses have returned: the
\* last entity, alone in the second chunk, whose probe failed, has version
\* 1, and in the first chunk the entities whose probe failed have version
\* 1 and those whose probe succeeded the probed version
C33_Witness ==
    /\ pc = "versions"
    /\ count = minipoolVersionBatchSize + 1
    /\ \A k \in {0, minipoolVersionBatchSize} : k \in DOMAIN wg /\ wg[k].status = "done"
    /\ ~KindOf(addresses[minipoolVersionBatchSize]).Success
    /\ versions[minipoolVersionBatchSize] = 1
    /\ versions[0] = 1
    /\ KindOf(addresses[1]).Success
    /\ versions[1] = KindOf(addresses[1]).version
    /\ versions[1] # 1


\* C34 (as claimed): the address batches of getOdaoAddresses cover
\* consecutive chunks, each starting where the one before it ended, and a
\* details batch of getOracleDaoDetails holds the calls of at most
\* oDaoDetailsBatchSize members.
C34_OdaoChunksPerOwnSize ==
    /\ pc = "odaoAddresses" =>
          \A k \in DOMAIN wg :
             /\ k % oDaoAddressBatchSize = 0
             /\ k + oDaoAddressBatchSize < memberCount =>
                   (i > k + oDaoAddressBatchSize \/ i = k + oDaoAddressBatchSize)
    /\ \A p \in IssuedIn("odaoDetails") :
          issued[p].hi - issued[p].lo <= oDaoDetailsBatchSize


\* The operation was given an empty collection
EmptyCollection ==
    /\ count = 0
    /\ op \in {"all", "node", "helpers", "shares", "odaoAll", "challenges"}
    /\ op = "challenges" => Len0(challengedIndices) = 0

\* The collection the operation returns
Returned ==
    CASE op = "odaoAll" -> memberDetails
      [] op = "challenges" -> states
      [] OTHER -> minipoolDetails

\* C35: on an empty collection no phase starts a worker or sends or
\* executes a chunk batch, and the operation returns the empty collection
\* without error; the only error it can return is that of a read made
\* outside the chunk loops (the count query, the balance fetch, the
\* contract lookup).
C35_EmptyCollectionNoBatches ==
    EmptyCollection =>
        /\ wg = << >>
        /\ wgErr = NoError
        /\ \A p \in 1..Len(issued) : issued[p].phase \notin WorkerPhases
        /\ \A e \in executed : e.phase \notin WorkerPhases
        /\ pc = "done" =>
              \/ /\ ret.err = NoError
                 /\ Returned = << >>
              \/ /\ ret.err # NoError
                 /\ ret.err[Len(ret.err)] \in {"transport", "GetContract"}

\* GetAllNativeMinipoolDetails on an empty collection has gone through
\* every phase and returned an empty list of records without error, having
\* sent the count query and the balance fetch only
C35_Witness ==
    /\ op = "all" /\ count = 0
    /\ Succeeded
    /\ ret.value = "minipoolDetails"
    /\ minipoolDetails = << >>
    /\ Len(issued) = 2
    /\ issued[2].phase = "balances"


\* The goroutines inside the lookup guarded by a mutex: between its Lock
\* and its Unlock
Inside(lock) ==
    {c \in DOMAIN lookup : lookup[c].lock = lock /\ lookup[c].pc \in {"GetContract", "Unlock"}}

\* At most one goroutine is inside the lookup of each mutex, and it is the
\* one holding the mutex
MutuallyExclusive ==
    \A lock \in DOMAIN locks :
        /\ Cardinality(Inside(lock)) <= 1
        /\ \A c \in Inside(lock) : locks[lock] = c
        /\ locks[lock] # 0 => locks[lock] \in Inside(lock)

\* A getter that returned, with the contract or with an error, does not
\* hold its mutex
Released ==
    \A c \in DOMAIN lookup :
        lookup[c].pc = "returned" => locks[lookup[c].lock] # c

\* Every goroutine that called a getter has returned from it
AllReturned ==
    \A c \in DOMAIN lookup : lookup[c].pc = "returned"

\* C36: at most one goroutine at a time is inside the lookup guarded by
\* each of rocketDAOProtocolVerifierLock and rocketMinipoolFactoryLock; a
\* getter that returned, whether the lookup succeeded or failed, has
\* released its mutex; and every goroutine that called a getter eventually
\* returns from it, so that no caller waits forever for a mutex, whether
\* the lookups before its own succeeded or failed.
C36_GettersExcludeAndRelease ==
    /\ [](MutuallyExclusive /\ Released)
    /\ <>AllReturned

\* GetMinipoolBytecode: the getter of the first goroutine has returned the
\* error of its lookup, the second goroutine, which waited for the same
\* mutex, has taken it after that and is inside the lookup, and a third
\* goroutine is inside the lookup of the verifier at the same time
C36_Witness ==
    /\ op = "bytecode"
    /\ lookup[1].pc = "returned" /\ lookup[1].err # NoError
    /\ lookup[2].pc = "GetContract" /\ locks["rocketMinipoolFactoryLock"] = 2
    /\ lookup[3].pc = "Unlock" /\ locks["rocketDAOProtocolVerifierLock"] = 3

====
